---- MODULE Spec2Model ----
(***************************************************************************)
(* Models of the components of the project package:                        *)
(*   ThreadPool/thread_pool.py             class ThreadPool       (Spec)   *)
(*   ThreadPool/cartesian_product_sums.py  cartesian_product_sum           *)
(*                                                          (ProductSpec)  *)
(*   Decorators/cache.py                   cache            (CacheSpec)    *)
(*   Generators/generators.py              prime_dec        (PrimeSpec)    *)
(*   BlackJack/game.py                     class Game       (GameSpec,     *)
(*                                                           SettleSpec)   *)
(* The components share nothing.  Each has its own variables, its own      *)
(* initial condition and its own next-state relation; while one component  *)
(* runs, the variables of the others stay at their idle values.            *)
(*                                                                         *)
(* Threads of the thread pool model: the worker threads 1..thread_num      *)
(* created by __init__, and the client threads (Clients) that call enqueue *)
(* and dispose on the pool.  Every thread has a program counter that names *)
(* the source line it is about to execute ("l66" = thread_pool.py line     *)
(* 66).  A task is the tuple (task, args, kwargs) built by one enqueue     *)
(* call; the model names the tuple by the number of the call that built    *)
(* it.  The clients are interchangeable and keep nothing between calls, so *)
(* a call made while a lower-numbered client is idle is taken to be made   *)
(* by that client: Clients are the calls that can be in progress at once.  *)
(***************************************************************************)
EXTENDS Integers, Sequences, FiniteSets

\* ---- bounds of the model
MaxThreads == 2
MaxTasks == 2
MaxDispose == 2

\* ---- thread identities
Free == 0
Workers == 1..MaxThreads
Clients == {101, 102}
NoTask == 0

VARIABLES
    thread_num,   \* self.thread_num
    tasks_queue,  \* self.tasks_queue
    threads,      \* self.threads: the workers started so far, in start order
    stop_flag,    \* self.stop_flag
    lock,         \* owner of self.lock (the lock of self.condition), or Free
    pc,           \* worker -> position in worker()
    cur,          \* worker -> the tuple popped at line 74, until its call at line 78 returns
    cpc,          \* client -> position in enqueue() / dispose()
    ctask,        \* client -> the tuple built by its enqueue call
    cjoin,        \* client -> index of the thread dispose() joins next
    calls,        \* number of enqueue calls begun so far
    dcalls,       \* number of dispose calls begun so far
    enqLog,       \* history: tuples in the order they were appended
    deqLog,       \* history: tuples in the order they were popped
    ran,          \* history: tuple -> number of completed invocations
    late,         \* history: an enqueue call was in progress at, or made after, a dispose call
    dreturned     \* history: number of dispose calls that have returned

\* the state of the thread pool and of its callers
threadPoolVars == <<thread_num, tasks_queue, threads, stop_flag, lock, pc, cur, cpc,
                    ctask, cjoin, calls, dcalls, enqLog, deqLog, ran, late, dreturned>>

\* ---- project/ThreadPool/cartesian_product_sums.py: one call of cartesian_product_sum
VARIABLES
    sets,         \* the argument sets
    max_workers,  \* the argument thread_num, given to ProcessPoolExecutor
    items,        \* the tuples executor.map has taken from gen, in order
    taken,        \* number of tuples handed to worker processes so far
    running,      \* indices of the tuples the worker processes are summing
    results,      \* index -> result of its future, NoResult until it is set
    order,        \* history: indices in the order their futures completed
    yielded,      \* number of results sum() has consumed from futures
    total_sum,    \* the running total of sum(futures), returned at line 45
    spc           \* position of the caller in cartesian_product_sum

productVars == <<sets, max_workers, items, taken, running, results, order,
                 yielded, total_sum, spc>>

\* ---- project/Decorators/cache.py: one function decorated with cache(max_size)
VARIABLES
    max_size,     \* the argument max_size of cache
    cached,       \* the OrderedDict cached: <<key, result>> pairs in insertion order
    stack,        \* the invocations of the wrapped function in progress, innermost last
    invocations,  \* number of invocations of the wrapped function begun so far
    callLog,      \* history: the keys of the wrapper calls, in call order
    misses,       \* history: number of wrapper calls whose key was not stored
    last          \* history: the key and the value of the latest return of wrapper

cacheVars == <<max_size, cached, stack, invocations, callLog, misses, last>>

\* ---- project/Generators/generators.py: one function decorated with prime_dec
VARIABLES
    last_k,       \* the nonlocal last_k of wrapper
    last_prime,   \* the nonlocal last_prime of wrapper, NoPrime for None
    gen_num,      \* the generator gen: the number prime_generator tests next
    kpc,          \* position of the call of wrapper in progress, or "idle"
    k,            \* the argument of the latest call of wrapper
    loop_i,       \* the value the loop of line 79 takes next from range(last_k, k)
    outcome,      \* history: how the latest call ended
    ret,          \* history: the value the latest call returned
    prev,         \* history: how the call before the latest one ended
    pre           \* history: last_k, last_prime and gen_num when the latest call began

primeVars == <<last_k, last_prime, gen_num, kpc, k, loop_i, outcome, ret, prev, pre>>

\* ---- project/BlackJack: one Game, its deck, its dealer and its seated bots
VARIABLES
    deck_cards,        \* self.deck.cards: the names of the cards, in deck order
    deck_count,        \* self.deck.count
    players,           \* self.players: a record per seated bot
    counting_players,  \* self.counting_players: positions in players of the bots listed
    strategy_count,    \* count of the CountingStrategy object in Game.strategies
    dealer,            \* self.dealer: hand, score and hide_card
    bets,              \* self.bets: player name -> bet
    game_over,         \* self.game_over
    round_count,       \* self.round_count
    rules,             \* the rule attributes MAX_PLAYERS .. STOP_CARD
    gpc,               \* position in play_round, "idle" outside it
    turn,              \* position in players of the bot whose play_turn comes next
    last_op,           \* history: the method called last from outside the Game
    gerr               \* history: the exception that ended the latest call, or "none"

gameVars == <<deck_cards, deck_count, players, counting_players, strategy_count,
              dealer, bets, game_over, round_count, rules, gpc, turn, last_op, gerr>>

\* ---- project/Treap/treap.py: one Treap and a dict given the same operations
VARIABLES
    troot,        \* self.root: the tree of TreapNode objects, NoNode for None
    tref,         \* a dict that is given every __setitem__ and __delitem__ of the treap
    tsplit,       \* the latest call of split: its arguments and the pair it returned
    terr,         \* the exception that ended the latest call, or "none"
    tlast         \* history: the latest call, its key and whether the key was stored

treapVars == <<troot, tref, tsplit, terr, tlast>>

\* the state of the components other than the thread pool
libVars == <<productVars, cacheVars, primeVars, gameVars, treapVars>>

vars == <<threadPoolVars, libVars>>

poolVars == <<thread_num, tasks_queue, threads, stop_flag>>
histVars == <<enqLog, deqLog, ran, late, dreturned>>
clientVars == <<cpc, ctask, cjoin, calls, dcalls>>

Range(s) == {s[i] : i \in 1..Len(s)}

\* __init__ has returned: every worker was started and appended
Constructed == Len(threads) = thread_num

\* the threads blocked in self.condition.wait() that no notify has released yet
Waiters == {w \in Workers : pc[w] = "wait"}

\* a join that returns whether or not the thread has ended
JoinNoWait(w) == TRUE

\* a join that returns only for a thread that left its loop at line 70
EndedByBreak(w) == pc[w] = "done"

\* a thread object whose run() has ended, by return or by an exception
Terminated(w) == pc[w] \in {"done", "dead"}

\* client c is inside an enqueue call
InEnqueue(c) == cpc[c] \in {"l95", "l96", "l97"}

\* tuples whose enqueue call has returned
Returned == {t \in Range(enqLog) : \A c \in Clients : ~(cpc[c] = "l97" /\ ctask[c] = t)}

\* client c may begin a call: it is idle and so is no lower-numbered client
MayCall(c) == cpc[c] = "idle" /\ \A d \in Clients : d < c => cpc[d] # "idle"

\* __init__, lines 35-43: the pool before its first worker is started
PoolFresh ==
    /\ tasks_queue = <<>>
    /\ threads = <<>>
    /\ stop_flag = FALSE
    /\ lock = Free
    /\ pc = [w \in Workers |-> "new"]
    /\ cur = [w \in Workers |-> NoTask]
    /\ cpc = [c \in Clients |-> "idle"]
    /\ ctask = [c \in Clients |-> NoTask]
    /\ cjoin = [c \in Clients |-> 0]
    /\ calls = 0
    /\ dcalls = 0
    /\ enqLog = <<>>
    /\ deqLog = <<>>
    /\ ran = [t \in 1..MaxTasks |-> 0]
    /\ late = FALSE
    /\ dreturned = 0

\* no thread pool is in use
PoolIdle == thread_num = 0 /\ PoolFresh

\* cartesian_product_sum is not called
ProductIdle ==
    /\ sets = <<>>
    /\ max_workers = 0
    /\ items = <<>>
    /\ taken = 0
    /\ running = {}
    /\ results = <<>>
    /\ order = <<>>
    /\ yielded = 0
    /\ total_sum = 0
    /\ spc = "idle"

\* wrapper has returned nothing yet
NoReturn == [key |-> <<>>, result |-> 0, hit |-> FALSE]

\* lines 25-38: a function was decorated and not called
CacheFresh ==
    /\ cached = <<>>
    /\ stack = <<>>
    /\ invocations = 0
    /\ callLog = <<>>
    /\ misses = 0
    /\ last = NoReturn

\* no decorated function is in use
CacheIdle == max_size = 0 /\ CacheFresh

\* last_prime = None
NoPrime == 0

\* prime_dec, lines 67-69: gen = func() has not run yet and will test 2 first
\* (prime_generator, line 104); no call of wrapper was made
PrimeIdle ==
    /\ last_k = 0
    /\ last_prime = NoPrime
    /\ gen_num = 2
    /\ kpc = "idle"
    /\ k = 0
    /\ loop_i = 0
    /\ outcome = "none"
    /\ ret = NoPrime
    /\ prev = "none"
    /\ pre = <<0, NoPrime, 2>>

\* deck.py, lines 53-54: the names and the suits; a card is modelled by its
\* name, its suit is only ever printed
CardNames == <<"2", "3", "4", "5", "6", "7", "8", "9", "10", "J", "Q", "K", "A">>
Suits == <<"hearts", "diamonds", "clubs", "spades">>

\* Deck.__init__, lines 49-56: product(names, suits), every name once per suit
NewDeck ==
    [i \in 1..(Len(CardNames) * Len(Suits)) |-> CardNames[((i - 1) \div Len(Suits)) + 1]]

\* hide_card = None
NoCard == "None"

\* GameMeta.__init__, lines 25-29; BLACKJACK_PAYOUT 1.5 is kept as the fraction 3/2
DefaultRules ==
    [MAX_PLAYERS |-> 6, BLACKJACK_PAYOUT |-> <<3, 2>>, DEALER_STAND_SCORE |-> 17,
     MAX_ROUND |-> 5, STOP_CARD |-> 32]

\* self.bets = {}
NoBets == [n \in {} |-> 0]

\* Dealer.__init__ (players.py, lines 134-139)
NewDealer == [hand |-> <<>>, score |-> 0, hide_card |-> NoCard]

\* Game.__init__, lines 55-63, with the bots of seats added: everything but
\* self.players and self.counting_players
GameFresh ==
    /\ deck_cards = NewDeck
    /\ deck_count = 0
    /\ strategy_count = 0
    /\ dealer = NewDealer
    /\ bets = NoBets
    /\ game_over = FALSE
    /\ round_count = 0
    /\ rules = DefaultRules
    /\ gpc = "idle"
    /\ turn = 0
    /\ last_op = "__init__"
    /\ gerr = "none"

\* no Game is in use
GameIdle == players = <<>> /\ counting_players = <<>> /\ GameFresh

\* ---- project/Treap/treap.py
\* None, where a TreapNode is expected
NoNode == [nil |-> TRUE]

\* a dict without items
NoItems == [key \in {} |-> "a"]

\* split has not been called
NoSplit == [key |-> 0, node |-> NoNode, left |-> NoNode, right |-> NoNode]

\* no Treap is in use; also Treap.__init__, line 56, with root = None
TreapIdle ==
    /\ troot = NoNode
    /\ tref = NoItems
    /\ tsplit = NoSplit
    /\ terr = "none"
    /\ tlast = [op |-> "__init__", key |-> 0, stored |-> FALSE]

Init ==
    /\ thread_num \in 0..MaxThreads
    /\ PoolFresh
    /\ ProductIdle
    /\ CacheIdle
    /\ PrimeIdle
    /\ TreapIdle
    /\ GameIdle

\* a constructor that starts workers whatever thread_num is
MayStartAlways == Len(threads) < MaxThreads

\* line 44: for _ in range(thread_num) has an iteration left
MayStart == Len(threads) < thread_num

\* ---- __init__, lines 44-47: start one worker and append it to self.threads
StartThread ==
    /\ MayStart
    /\ LET w == Len(threads) + 1 IN
        /\ pc' = [pc EXCEPT ![w] = "l65"]
        /\ threads' = Append(threads, w)
    /\ UNCHANGED <<thread_num, tasks_queue, stop_flag, lock, cur>>
    /\ UNCHANGED clientVars
    /\ UNCHANGED histVars
    /\ UNCHANGED libVars

\* a lock that excludes nobody
CanAcquireAlways(t) == TRUE

\* ---- acquiring the lock (Lock.acquire, blocking): only a free lock is taken
CanAcquire(t) == lock = Free

\* ---- worker(), line 65: with self.condition
WAcquireCond(w) ==
    /\ pc[w] = "l65"
    /\ CanAcquire(w)
    /\ lock' = w
    /\ pc' = [pc EXCEPT ![w] = "l66"]
    /\ UNCHANGED <<poolVars, cur>>
    /\ UNCHANGED clientVars
    /\ UNCHANGED histVars
    /\ UNCHANGED libVars

\* line 66: the condition of the wait loop
MustWait == tasks_queue = <<>> /\ ~stop_flag

\* a wait that blocks without giving up the lock
LockHeldWhileWaiting(w) == w

\* line 67: Condition.wait() releases the lock before it blocks
LockWhileWaiting(w) == Free

\* lines 66-67: evaluate the loop condition; wait() releases the lock and blocks
WWhile(w) ==
    /\ pc[w] = "l66"
    /\ IF MustWait
       THEN /\ pc' = [pc EXCEPT ![w] = "wait"]
            /\ lock' = LockWhileWaiting(w)
       ELSE /\ pc' = [pc EXCEPT ![w] = "l69"]
            /\ lock' = lock
    /\ UNCHANGED <<poolVars, cur>>
    /\ UNCHANGED clientVars
    /\ UNCHANGED histVars
    /\ UNCHANGED libVars

\* line 67: a notified waiter re-acquires the lock and returns from wait()
WWakeup(w) ==
    /\ pc[w] = "woken"
    /\ CanAcquire(w)
    /\ lock' = w
    /\ pc' = [pc EXCEPT ![w] = "l66"]
    /\ UNCHANGED <<poolVars, cur>>
    /\ UNCHANGED clientVars
    /\ UNCHANGED histVars
    /\ UNCHANGED libVars

\* a worker that breaks as soon as the stop flag is set, whatever is queued
MustExitNoDrain == stop_flag

\* line 69: the condition of the break
MustExit == stop_flag /\ tasks_queue = <<>>

\* lines 69-70: break (the thread ends) or leave the with block; both release the lock
WStopCheck(w) ==
    /\ pc[w] = "l69"
    /\ pc' = [pc EXCEPT ![w] = IF MustExit THEN "done" ELSE "l72"]
    /\ lock' = Free
    /\ UNCHANGED <<poolVars, cur>>
    /\ UNCHANGED clientVars
    /\ UNCHANGED histVars
    /\ UNCHANGED libVars

\* line 72: with self.lock
WAcquireLock(w) ==
    /\ pc[w] = "l72"
    /\ CanAcquire(w)
    /\ lock' = w
    /\ pc' = [pc EXCEPT ![w] = "l73"]
    /\ UNCHANGED <<poolVars, cur>>
    /\ UNCHANGED clientVars
    /\ UNCHANGED histVars
    /\ UNCHANGED libVars

\* the call at line 78 indented into the with block: the lock stays with the worker
LockKeptAfterPop(w) == w

\* lines 72-76: the with block ends before line 78, which releases the lock
LockAfterPop(w) == Free

\* break instead of continue: the worker thread ends
OnEmptyBreak == "done"

\* lines 75-76: else: continue, back to the top of the while True loop
OnEmpty == "l65"

\* pop() without an index: takes the newest element instead of the oldest
PopBack(q) == <<q[Len(q)], SubSeq(q, 1, Len(q) - 1)>>

\* line 74: the element tasks_queue.pop(0) returns, and the list it leaves
PopFront(q) == <<Head(q), Tail(q)>>

\* lines 73-76: pop the head and leave the with block, or continue
WPop(w) ==
    /\ pc[w] = "l73"
    /\ IF tasks_queue # <<>>
       THEN /\ cur' = [cur EXCEPT ![w] = PopFront(tasks_queue)[1]]
            /\ tasks_queue' = PopFront(tasks_queue)[2]
            /\ deqLog' = Append(deqLog, PopFront(tasks_queue)[1])
            /\ pc' = [pc EXCEPT ![w] = "l78"]
       ELSE /\ pc' = [pc EXCEPT ![w] = OnEmpty]
            /\ UNCHANGED <<cur, tasks_queue, deqLog>>
    /\ lock' = LockAfterPop(w)
    /\ UNCHANGED <<thread_num, threads, stop_flag>>
    /\ UNCHANGED clientVars
    /\ UNCHANGED <<enqLog, ran, late, dreturned>>
    /\ UNCHANGED libVars

\* line 78: task(*args, **kwargs) returns; the worker loops. The locals task,
\* args, kwargs are not read again before line 74 rebinds them.
TaskReturn(w) ==
    /\ pc[w] = "l78"
    /\ ran' = [ran EXCEPT ![cur[w]] = @ + 1]
    /\ pc' = [pc EXCEPT ![w] = "l65"]
    /\ cur' = [cur EXCEPT ![w] = NoTask]
    /\ UNCHANGED <<poolVars, lock>>
    /\ UNCHANGED clientVars
    /\ UNCHANGED <<enqLog, deqLog, late, dreturned>>
    /\ UNCHANGED libVars

\* line 78: task(*args, **kwargs) raises; nothing catches it and the thread ends
TaskRaise(w) ==
    /\ pc[w] = "l78"
    /\ pc' = [pc EXCEPT ![w] = "dead"]
    /\ UNCHANGED <<poolVars, lock, cur>>
    /\ UNCHANGED clientVars
    /\ UNCHANGED histVars
    /\ UNCHANGED libVars

\* ---- enqueue(), line 80: a client calls enqueue; the call builds its tuple
EnqueueCall(c) ==
    /\ Constructed
    /\ MayCall(c)
    /\ calls < MaxTasks
    /\ calls' = calls + 1
    /\ ctask' = [ctask EXCEPT ![c] = calls + 1]
    /\ late' = (late \/ dcalls > 0)
    /\ cpc' = [cpc EXCEPT ![c] = "l95"]
    /\ UNCHANGED <<poolVars, lock, pc, cur, cjoin, dcalls>>
    /\ UNCHANGED <<enqLog, deqLog, ran, dreturned>>
    /\ UNCHANGED libVars

\* line 95: with self.condition
EAcquire(c) ==
    /\ cpc[c] = "l95"
    /\ CanAcquire(c)
    /\ lock' = c
    /\ cpc' = [cpc EXCEPT ![c] = "l96"]
    /\ UNCHANGED <<poolVars, pc, cur, ctask, cjoin, calls, dcalls>>
    /\ UNCHANGED histVars
    /\ UNCHANGED libVars

\* an append that puts the tuple at the head of the list
AppendedFront(q, t) == <<t>> \o q

\* list.append: the tuple becomes the last element
Appended(q, t) == Append(q, t)

\* line 96: self.tasks_queue.append((task, args, kwargs))
EAppend(c) ==
    /\ cpc[c] = "l96"
    /\ tasks_queue' = Appended(tasks_queue, ctask[c])
    /\ enqLog' = Append(enqLog, ctask[c])
    /\ cpc' = [cpc EXCEPT ![c] = "l97"]
    /\ UNCHANGED <<thread_num, threads, stop_flag, lock, pc, cur>>
    /\ UNCHANGED <<ctask, cjoin, calls, dcalls>>
    /\ UNCHANGED <<deqLog, ran, late, dreturned>>
    /\ UNCHANGED libVars

\* Condition.notify(n=1): the sets of waiters one notify may release
NotifyChoices == IF Waiters = {} THEN {{}} ELSE {{w} : w \in Waiters}

\* line 97: self.condition.notify(), then the with block releases the lock and enqueue returns
ENotify(c) ==
    /\ cpc[c] = "l97"
    /\ \E ws \in NotifyChoices :
        pc' = [w \in Workers |-> IF w \in ws THEN "woken" ELSE pc[w]]
    /\ lock' = Free
    /\ cpc' = [cpc EXCEPT ![c] = "idle"]
    /\ ctask' = [ctask EXCEPT ![c] = NoTask]
    /\ UNCHANGED <<poolVars, cur, cjoin, calls, dcalls>>
    /\ UNCHANGED histVars
    /\ UNCHANGED libVars

\* ---- dispose(), line 99: a client calls dispose
DisposeCall(c) ==
    /\ Constructed
    /\ MayCall(c)
    /\ dcalls < MaxDispose
    /\ dcalls' = dcalls + 1
    /\ cpc' = [cpc EXCEPT ![c] = "l113"]
    /\ late' = (late \/ \E d \in Clients : InEnqueue(d))
    /\ UNCHANGED <<poolVars, lock, pc, cur, ctask, cjoin, calls>>
    /\ UNCHANGED <<enqLog, deqLog, ran, dreturned>>
    /\ UNCHANGED libVars

\* line 113: with self.condition
DAcquire(c) ==
    /\ cpc[c] = "l113"
    /\ CanAcquire(c)
    /\ lock' = c
    /\ cpc' = [cpc EXCEPT ![c] = "l114"]
    /\ UNCHANGED <<poolVars, pc, cur, ctask, cjoin, calls, dcalls>>
    /\ UNCHANGED histVars
    /\ UNCHANGED libVars

\* a dispose that flips the flag instead of setting it
StopValueToggled(old) == ~old

\* line 114: the value assigned to self.stop_flag
StopValue(old) == TRUE

\* line 114: self.stop_flag = True
DSetStop(c) ==
    /\ cpc[c] = "l114"
    /\ stop_flag' = StopValue(stop_flag)
    /\ cpc' = [cpc EXCEPT ![c] = "l115"]
    /\ UNCHANGED <<thread_num, tasks_queue, threads, lock, pc, cur>>
    /\ UNCHANGED <<ctask, cjoin, calls, dcalls>>
    /\ UNCHANGED histVars
    /\ UNCHANGED libVars

\* notify() in place of notify_all(): at most one waiter is released
NotifyAllOnlyOne == NotifyChoices

\* Condition.notify_all(): every waiter is released
NotifyAllChoices == {Waiters}

\* line 115: self.condition.notify_all(), then the with block releases the lock
DNotifyAll(c) ==
    /\ cpc[c] = "l115"
    /\ \E ws \in NotifyAllChoices :
        pc' = [w \in Workers |-> IF w \in ws THEN "woken" ELSE pc[w]]
    /\ lock' = Free
    /\ cpc' = [cpc EXCEPT ![c] = "l117"]
    /\ cjoin' = [cjoin EXCEPT ![c] = 1]
    /\ UNCHANGED <<poolVars, cur, ctask, calls, dcalls>>
    /\ UNCHANGED histVars
    /\ UNCHANGED libVars

\* lines 117-118: thread.join() returns once that thread has ended
DJoin(c) ==
    /\ cpc[c] = "l117"
    /\ cjoin[c] <= Len(threads)
    /\ Terminated(threads[cjoin[c]])
    /\ cjoin' = [cjoin EXCEPT ![c] = @ + 1]
    /\ UNCHANGED <<poolVars, lock, pc, cur, cpc, ctask, calls, dcalls>>
    /\ UNCHANGED histVars
    /\ UNCHANGED libVars

\* line 117: the for loop is exhausted and dispose returns
DReturn(c) ==
    /\ cpc[c] = "l117"
    /\ cjoin[c] > Len(threads)
    /\ cpc' = [cpc EXCEPT ![c] = "idle"]
    /\ cjoin' = [cjoin EXCEPT ![c] = 0]
    /\ dreturned' = dreturned + 1
    /\ UNCHANGED <<poolVars, lock, pc, cur, ctask, calls, dcalls>>
    /\ UNCHANGED <<enqLog, deqLog, ran, late>>
    /\ UNCHANGED libVars

Next ==
    \/ StartThread
    \/ \E w \in Workers : WAcquireCond(w)
    \/ \E w \in Workers : WWhile(w)
    \/ \E w \in Workers : WWakeup(w)
    \/ \E w \in Workers : WStopCheck(w)
    \/ \E w \in Workers : WAcquireLock(w)
    \/ \E w \in Workers : WPop(w)
    \/ \E w \in Workers : TaskReturn(w)
    \/ \E w \in Workers : TaskRaise(w)
    \/ \E c \in Clients : EnqueueCall(c)
    \/ \E c \in Clients : EAcquire(c)
    \/ \E c \in Clients : EAppend(c)
    \/ \E c \in Clients : ENotify(c)
    \/ \E c \in Clients : DisposeCall(c)
    \/ \E c \in Clients : DAcquire(c)
    \/ \E c \in Clients : DSetStop(c)
    \/ \E c \in Clients : DNotifyAll(c)
    \/ \E c \in Clients : DJoin(c)
    \/ \E c \in Clients : DReturn(c)

Spec == Init /\ [][Next]_vars

\* ---- scheduling
\* a step of worker w inside the pool's own code (lines 64-76)
WorkerStep(w) ==
    \/ WAcquireCond(w)
    \/ WWhile(w)
    \/ WWakeup(w)
    \/ WStopCheck(w)
    \/ WAcquireLock(w)
    \/ WPop(w)

\* the task body running on worker w ends (line 78)
TaskEnds(w) == TaskReturn(w) \/ TaskRaise(w)

\* a step of client c inside an enqueue or dispose call it has made
ClientStep(c) ==
    \/ EAcquire(c)
    \/ EAppend(c)
    \/ ENotify(c)
    \/ DAcquire(c)
    \/ DSetStop(c)
    \/ DNotifyAll(c)
    \/ DJoin(c)
    \/ DReturn(c)

\* fair scheduling of the threads: a thread that can run pool code does so
FairSched ==
    /\ WF_vars(StartThread)
    /\ \A w \in Workers : WF_vars(WorkerStep(w))
    /\ \A c \in Clients : WF_vars(ClientStep(c))

\* ---- barrier tasks: a body returns only once as many tuples have been
\* popped as the pool has workers (each body waits for all of them to start)
BarrierOpen == Len(deqLog) >= thread_num

BarrierReturn(w) == BarrierOpen /\ TaskReturn(w)

BarrierNext ==
    \/ StartThread
    \/ \E w \in Workers : WAcquireCond(w)
    \/ \E w \in Workers : WWhile(w)
    \/ \E w \in Workers : WWakeup(w)
    \/ \E w \in Workers : WStopCheck(w)
    \/ \E w \in Workers : WAcquireLock(w)
    \/ \E w \in Workers : WPop(w)
    \/ \E w \in Workers : BarrierReturn(w)
    \/ \E c \in Clients : EnqueueCall(c)
    \/ \E c \in Clients : EAcquire(c)
    \/ \E c \in Clients : EAppend(c)
    \/ \E c \in Clients : ENotify(c)
    \/ \E c \in Clients : DisposeCall(c)
    \/ \E c \in Clients : DAcquire(c)
    \/ \E c \in Clients : DSetStop(c)
    \/ \E c \in Clients : DNotifyAll(c)
    \/ \E c \in Clients : DJoin(c)
    \/ \E c \in Clients : DReturn(c)

\* fair scheduling of a pool that runs barrier tasks
BarrierSpec ==
    /\ Init
    /\ [][BarrierNext]_vars
    /\ FairSched
    /\ \A w \in Workers : WF_vars(BarrierReturn(w))

\* fair scheduling; task bodies may run forever
FairSpec == Spec /\ FairSched

\* fair scheduling and every task body ends
TermSpec == Spec /\ FairSched /\ \A w \in Workers : WF_vars(TaskEnds(w))

\* ---------------------------------------------------------------------------
\* project/ThreadPool/cartesian_product_sums.py
\* ---------------------------------------------------------------------------

\* ---- bound: the largest max_workers
MaxProcs == 2

\* the value read from a future whose result is not set
NoResult == 0

\* the lists given to cartesian_product_sum
SetsInputs ==
    { <<>>,
      << <<1>>, <<2>> >>,
      << <<1, 2>>, <<3, 4>> >>,
      << <<1, 2>>, <<3, 4>>, <<5, 6>> >>,
      << <<1, 2, 3>>, <<4, 5>>, <<6>> >>,
      << <<1, 2>>, <<>> >>,
      << <<2, 2>>, <<3>> >>,
      << <<-1, 1>>, <<0>>, <<-2, 5>> >> }

\* the builtin sum over a tuple
RECURSIVE TupleSum(_)
TupleSum(t) == IF t = <<>> THEN 0 ELSE Head(t) + TupleSum(Tail(t))

\* every tuple of rest, each with x put in front
RECURSIVE Prepend(_, _)
Prepend(x, rest) ==
    IF rest = <<>> THEN <<>> ELSE <<(<<x>> \o Head(rest))>> \o Prepend(x, Tail(rest))

\* the tuples that start with an element of list, in the order of list
RECURSIVE PrependEach(_, _)
PrependEach(list, rest) ==
    IF list = <<>> THEN <<>>
    ELSE Prepend(Head(list), rest) \o PrependEach(Tail(list), rest)

\* cartesian_product_gen, lines 22-23: itertools.product(*sets) in the order it
\* yields, the last list varying fastest; one empty tuple for no list at all
RECURSIVE Product(_)
Product(ss) ==
    IF ss = <<>> THEN << <<>> >> ELSE PrependEach(Head(ss), Product(Tail(ss)))

\* an iterator that hands out a result before its future has one
CanYieldAlways(i) == TRUE

\* the result iterator of executor.map blocks until future i has its result
CanYield(i) == i \in Range(order)

ProductInit ==
    /\ PoolIdle
    /\ CacheIdle
    /\ PrimeIdle
    /\ TreapIdle
    /\ GameIdle
    /\ sets \in SetsInputs
    /\ max_workers \in 1..MaxProcs
    /\ items = <<>>
    /\ taken = 0
    /\ running = {}
    /\ results = <<>>
    /\ order = <<>>
    /\ yielded = 0
    /\ total_sum = 0
    /\ spc = "l40"

\* lines 40-43: total_sum = 0; executor.map(sum, gen) takes every tuple from gen
\* and submits one call of sum for each
MapSubmit ==
    /\ spc = "l40"
    /\ items' = Product(sets)
    /\ results' = [i \in 1..Len(Product(sets)) |-> NoResult]
    /\ total_sum' = 0
    /\ spc' = "l44"
    /\ UNCHANGED <<sets, max_workers, taken, running, order, yielded>>
    /\ UNCHANGED <<threadPoolVars, cacheVars, primeVars, gameVars, treapVars>>

\* a worker process without work takes the submitted call that is next in line
ProcessTake ==
    /\ spc = "l44"
    /\ taken < Len(items)
    /\ Cardinality(running) < max_workers
    /\ taken' = taken + 1
    /\ running' = running \cup {taken + 1}
    /\ UNCHANGED <<sets, max_workers, items, results, order, yielded, total_sum, spc>>
    /\ UNCHANGED <<threadPoolVars, cacheVars, primeVars, gameVars, treapVars>>

\* a worker process has computed sum(items[i]); the result is set on future i
ProcessFinish(i) ==
    /\ i \in running
    /\ running' = running \ {i}
    /\ results' = [results EXCEPT ![i] = TupleSum(items[i])]
    /\ order' = Append(order, i)
    /\ UNCHANGED <<sets, max_workers, items, taken, yielded, total_sum, spc>>
    /\ UNCHANGED <<threadPoolVars, cacheVars, primeVars, gameVars, treapVars>>

\* line 44: sum(futures) takes the next result, in the order of submission
SumNext ==
    /\ spc = "l44"
    /\ yielded < Len(items)
    /\ CanYield(yielded + 1)
    /\ total_sum' = total_sum + results[yielded + 1]
    /\ yielded' = yielded + 1
    /\ UNCHANGED <<sets, max_workers, items, taken, running, results, order, spc>>
    /\ UNCHANGED <<threadPoolVars, cacheVars, primeVars, gameVars, treapVars>>

\* lines 44-45: futures is exhausted, the executor shuts down, total_sum is returned
SumReturn ==
    /\ spc = "l44"
    /\ yielded = Len(items)
    /\ running = {}
    /\ spc' = "returned"
    /\ UNCHANGED <<sets, max_workers, items, taken, running, results, order,
                   yielded, total_sum>>
    /\ UNCHANGED <<threadPoolVars, cacheVars, primeVars, gameVars, treapVars>>

ProductNext ==
    \/ MapSubmit
    \/ ProcessTake
    \/ \E i \in 1..Len(items) : ProcessFinish(i)
    \/ SumNext
    \/ SumReturn

ProductSpec == ProductInit /\ [][ProductNext]_vars

\* ---------------------------------------------------------------------------
\* project/Decorators/cache.py
\* ---------------------------------------------------------------------------

\* ---- bounds: the largest max_size, the number of wrapper calls, and the
\* depth to which the wrapped function calls its own wrapper
MaxSize == 2
MaxCalls == 4
MaxDepth == 2

\* the calls made: positional arguments and keyword arguments in the order given
CallInputs ==
    { [args |-> <<2>>, kwargs |-> <<>>],
      [args |-> <<3>>, kwargs |-> <<>>],
      [args |-> <<4>>, kwargs |-> <<>>],
      [args |-> <<>>, kwargs |-> << <<"x", 5>> >>],
      [args |-> <<>>, kwargs |-> << <<"x", 6>> >>],
      [args |-> <<2>>, kwargs |-> << <<"x", 5>>, <<"y", 6>> >>],
      [args |-> <<2>>, kwargs |-> << <<"y", 6>>, <<"x", 5>> >>] }

\* line 55: cache_key = (args, frozenset(kwargs.items()))
Key(a) == <<a.args, {a.kwargs[i] : i \in 1..Len(a.kwargs)}>>

\* the keys of an OrderedDict
Keys(c) == {c[i][1] : i \in 1..Len(c)}

\* a lookup that finds nothing
IsStoredNever(key) == FALSE

\* line 57: cache_key in cached
IsStored(key) == key \in Keys(cached)

\* line 58: cached[cache_key]
Lookup(c, key) == c[CHOOSE i \in 1..Len(c) : c[i][1] = key][2]

\* a popitem that removes the pair inserted last
PopLast(c) == SubSeq(c, 1, Len(c) - 1)

\* line 64: cached.popitem(last=False) removes the pair inserted first
PopFirst(c) == Tail(c)

\* line 65: cached[cache_key] = result; a new key goes last, a stored key
\* keeps its place
SetItem(c, key, r) ==
    IF key \in Keys(c)
    THEN [i \in 1..Len(c) |-> IF c[i][1] = key THEN <<key, r>> ELSE c[i]]
    ELSE Append(c, <<key, r>>)

\* a wrapper that stores whatever max_size is
MayStoreAlways == TRUE

\* line 62: if max_size > 0
MayStore == max_size > 0

\* lines 62-65
Store(c, key, r) ==
    IF MayStore
    THEN SetItem(IF Len(c) >= max_size /\ max_size > 0 THEN PopFirst(c) ELSE c, key, r)
    ELSE c

CacheInit ==
    /\ PoolIdle
    /\ ProductIdle
    /\ PrimeIdle
    /\ TreapIdle
    /\ GameIdle
    /\ max_size \in 0..MaxSize
    /\ CacheFresh

\* lines 55-60: wrapper is called, by the program or by the wrapped function
\* while it runs; a stored key returns at line 58, any other key invokes the
\* wrapped function (line 60)
WrapperCall(a) ==
    /\ Len(callLog) < MaxCalls
    /\ callLog' = Append(callLog, Key(a))
    /\ misses' = IF Key(a) \in Keys(cached) THEN misses ELSE misses + 1
    /\ IF IsStored(Key(a))
       THEN /\ last' = [key |-> Key(a), result |-> Lookup(cached, Key(a)), hit |-> TRUE]
            /\ UNCHANGED <<stack, invocations>>
       ELSE /\ Len(stack) < MaxDepth
            /\ invocations' = invocations + 1
            /\ stack' = Append(stack, [key |-> Key(a), inv |-> invocations + 1])
            /\ last' = last
    /\ UNCHANGED <<max_size, cached>>
    /\ UNCHANGED <<threadPoolVars, productVars, primeVars, gameVars, treapVars>>

\* lines 60-67: the innermost invocation returns its result; wrapper stores it
\* when max_size > 0, evicting first when the cache is full, and returns it
FunctionReturn ==
    /\ stack # <<>>
    /\ LET top == stack[Len(stack)] IN
        /\ cached' = Store(cached, top.key, top.inv)
        /\ last' = [key |-> top.key, result |-> top.inv, hit |-> FALSE]
    /\ stack' = SubSeq(stack, 1, Len(stack) - 1)
    /\ UNCHANGED <<max_size, invocations, callLog, misses>>
    /\ UNCHANGED <<threadPoolVars, productVars, primeVars, gameVars, treapVars>>

CacheNext ==
    \/ \E a \in CallInputs : WrapperCall(a)
    \/ FunctionReturn

CacheSpec == CacheInit /\ [][CacheNext]_vars

\* ---------------------------------------------------------------------------
\* project/Generators/generators.py: prime_dec and prime_generator
\* ---------------------------------------------------------------------------

\* ---- bound: the largest k asked for
MaxK == 10

\* the integers given to the decorated function
KInputs == {-2, -1} \cup (0..MaxK)

\* int(num ** 0.5)
RECURSIVE RootFrom(_, _)
RootFrom(num, r) == IF (r + 1) * (r + 1) > num THEN r ELSE RootFrom(num, r + 1)

IntRoot(num) == RootFrom(num, 0)

\* prime_generator, lines 107-110: flag after the trial divisions of num
Flag(num) == \A i \in 2..IntRoot(num) : num % i # 0

\* prime_generator, lines 106-114: the number yielded by a generator that
\* tests num next
RECURSIVE Yielded(_)
Yielded(num) == IF Flag(num) THEN num ELSE Yielded(num + 1)

\* line 68: the value last_k has before the first call; a loop that starts
\* from it takes the values of range(0, k) whatever last_k is
RangeStartZero == 0

\* line 79: the first value of range(last_k, k)
RangeStart == last_k

\* a wrapper that accepts every k
TooSmallNever(n) == FALSE

\* line 74: if k < last_k
TooSmall(n) == n < last_k

PrimeInit ==
    /\ PoolIdle
    /\ ProductIdle
    /\ CacheIdle
    /\ GameIdle
    /\ PrimeIdle
    /\ TreapIdle

\* lines 71-79: wrapper is called with k; k < last_k raises ValueError, any
\* other k enters the loop over range(last_k, k)
WrapperEnter(n) ==
    /\ kpc = "idle"
    /\ k' = n
    /\ prev' = outcome
    /\ pre' = <<last_k, last_prime, gen_num>>
    /\ ret' = NoPrime
    /\ IF TooSmall(n)
       THEN /\ outcome' = "ValueError"
            /\ UNCHANGED <<kpc, loop_i>>
       ELSE /\ outcome' = "running"
            /\ kpc' = "l79"
            /\ loop_i' = RangeStart
    /\ UNCHANGED <<last_k, last_prime, gen_num>>
    /\ UNCHANGED <<threadPoolVars, productVars, cacheVars, gameVars, treapVars>>

\* lines 79-80: one iteration, last_prime = next(gen)
LoopNext ==
    /\ kpc = "l79"
    /\ loop_i < k
    /\ last_prime' = Yielded(gen_num)
    /\ gen_num' = Yielded(gen_num) + 1
    /\ loop_i' = loop_i + 1
    /\ UNCHANGED <<last_k, kpc, k, outcome, ret, prev, pre>>
    /\ UNCHANGED <<threadPoolVars, productVars, cacheVars, gameVars, treapVars>>

\* lines 82-86: the range is exhausted; last_k = k, then RuntimeError when
\* last_prime is None, else last_prime is returned
LoopExit ==
    /\ kpc = "l79"
    /\ loop_i >= k
    /\ last_k' = k
    /\ IF last_prime = NoPrime
       THEN outcome' = "RuntimeError" /\ ret' = ret
       ELSE outcome' = "returned" /\ ret' = last_prime
    /\ kpc' = "idle"
    /\ UNCHANGED <<last_prime, gen_num, k, loop_i, prev, pre>>
    /\ UNCHANGED <<threadPoolVars, productVars, cacheVars, gameVars, treapVars>>

PrimeNext ==
    \/ \E n \in KInputs : WrapperEnter(n)
    \/ LoopNext
    \/ LoopExit

PrimeSpec == PrimeInit /\ [][PrimeNext]_vars

\* ---------------------------------------------------------------------------
\* project/BlackJack: game.py, players.py, deck.py, bot_strategy.py
\* ---------------------------------------------------------------------------

\* ---- bound: the number of play_round calls
MaxRounds == 5

\* the bots seated by create_bot and add_player before the first round
SeatInputs ==
    { << [name |-> "Bot1", strategy |-> "accurate", chips |-> 1000],
         [name |-> "Bot2", strategy |-> "aggressive", chips |-> 1000],
         [name |-> "Counting", strategy |-> "counting", chips |-> 1000] >>,
      << [name |-> "B1", strategy |-> "aggressive", chips |-> 1000],
         [name |-> "B2", strategy |-> "aggressive", chips |-> 1000],
         [name |-> "B3", strategy |-> "aggressive", chips |-> 1000],
         [name |-> "B4", strategy |-> "aggressive", chips |-> 1000],
         [name |-> "B5", strategy |-> "aggressive", chips |-> 1000] >>,
      << [name |-> "C1", strategy |-> "counting", chips |-> 1000],
         [name |-> "C2", strategy |-> "counting", chips |-> 1000] >>,
      << [name |-> "Poor", strategy |-> "accurate", chips |-> 15] >> }

\* the orders random.shuffle leaves the deck in
ShuffleOutcomes ==
    { << "7", "A", "9", "6", "8", "J", "K", "A", "4", "5", "A", "4", "9",
         "6", "2", "K", "K", "Q", "J", "8", "K", "10", "10", "9", "Q", "6",
         "A", "8", "2", "J", "Q", "2", "J", "9", "6", "3", "5", "2", "3",
         "7", "5", "7", "4", "10", "3", "3", "Q", "8", "10", "4", "7", "5" >>,
      << "4", "6", "J", "5", "9", "8", "J", "5", "5", "J", "K", "6", "J",
         "9", "6", "7", "9", "8", "3", "10", "Q", "7", "2", "A", "5", "7",
         "8", "10", "K", "K", "Q", "6", "3", "2", "A", "2", "4", "10", "A",
         "4", "3", "9", "A", "8", "Q", "Q", "2", "4", "K", "10", "3", "7" >> }

\* what random.randint(10, min(100, chips)) returns in place_bets: its least
\* or its greatest value, for all players of a round alike
BetDraws == {"least", "greatest"}

\* the calls of change_bot_strategy: bot_name and strategy_name
ChangeInputs ==
    { <<"Bot1", "aggressive">>, <<"Bot1", "counting">>, <<"Counting", "accurate">>,
      <<"Bot1", "strategy">>, <<"Alex", "accurate">> }

\* the keys of Game.strategies (lines 32-36)
StrategyNames == {"accurate", "aggressive", "counting"}

Least(a, b) == IF a <= b THEN a ELSE b

\* ---- players.py, Player.calculate_score, lines 45-58
CardValue(c) ==
    CASE c = "A" -> 1
      [] c \in {"K", "Q", "J", "10"} -> 10
      [] c = "2" -> 2 [] c = "3" -> 3 [] c = "4" -> 4 [] c = "5" -> 5
      [] c = "6" -> 6 [] c = "7" -> 7 [] c = "8" -> 8 [] c = "9" -> 9

RECURSIVE HandSum(_)
HandSum(h) == IF h = <<>> THEN 0 ELSE CardValue(Head(h)) + HandSum(Tail(h))

CalculateScore(h) ==
    IF "A" \in Range(h) /\ HandSum(h) <= 11 THEN HandSum(h) + 10 ELSE HandSum(h)

\* ---- bot_strategy.py, CountingStrategy.update_count, lines 86-89
HiLo(c) ==
    IF c \in {"2", "3", "4", "5", "6"} THEN 1
    ELSE IF c \in {"10", "J", "Q", "K", "A"} THEN -1
    ELSE 0

\* ---- bot_strategy.py, decide_hit of the three strategies (lines 40, 58, 105-110)
DecideHit(strategy, score, cnt) ==
    CASE strategy = "accurate" -> score < 14
      [] strategy = "aggressive" -> score < 17
      [] strategy = "counting" ->
            IF cnt > 2 THEN score < 19
            ELSE IF cnt < -2 THEN score < 16
            ELSE score < 17

\* ---- the part of the game a method works on: deck.count, the bots, the
\* dealer, the count of the CountingStrategy object and the exception raised
Working ==
    [count |-> deck_count, players |-> players, dealer |-> dealer,
     scount |-> strategy_count, err |-> "none"]

\* Game.counting, lines 279-282, from the roster entry j on: update_count is
\* called on the strategy the listed bot has now; only a CountingStrategy has it
RECURSIVE CountingFrom(_, _, _)
CountingFrom(st, card, j) ==
    IF j > Len(counting_players) THEN st
    ELSE IF st.players[counting_players[j]].strategy = "counting"
         THEN CountingFrom([st EXCEPT !.scount = @ + HiLo(card)], card, j + 1)
         ELSE [st EXCEPT !.err = "AttributeError"]

Counting(st, card) == CountingFrom(st, card, 1)

\* Deck.get_card, lines 76-77: count is incremented, then cards[count - 1]
\* raises IndexError past the end of the list
PastTheEnd(cards, n) == n > Len(cards)

\* Game.hit, lines 176-179, also the body of the deal loop, lines 129-132
Hit(st, cards, i) ==
    LET n == st.count + 1 IN
    IF PastTheEnd(cards, n) THEN [st EXCEPT !.count = n, !.err = "IndexError"]
    ELSE LET hand == Append(st.players[i].hand, cards[n]) IN
         Counting([st EXCEPT !.count = n,
                             !.players[i].hand = hand,
                             !.players[i].score = CalculateScore(hand)], cards[n])

\* Game.play_turn, lines 165-167: while player.decide_hit(): self.hit(player)
RECURSIVE HitLoop(_, _, _)
HitLoop(st, cards, i) ==
    IF st.err # "none" THEN st
    ELSE IF DecideHit(st.players[i].strategy, st.players[i].score, st.scount)
         THEN HitLoop(Hit(st, cards, i), cards, i)
         ELSE st

\* start_round, lines 128-132: a card to every player from player i on
RECURSIVE DealPlayers(_, _, _)
DealPlayers(st, cards, i) ==
    IF st.err # "none" \/ i > Len(st.players) THEN st
    ELSE DealPlayers(Hit(st, cards, i), cards, i + 1)

\* start_round, lines 134-141: the dealer's card of deal round r; the second
\* one becomes hide_card and is not counted
DealDealer(st, cards, r) ==
    LET n == st.count + 1 IN
    IF PastTheEnd(cards, n) THEN [st EXCEPT !.count = n, !.err = "IndexError"]
    ELSE IF r = 1
         THEN [st EXCEPT !.count = n, !.dealer.hide_card = cards[n],
                         !.dealer.score = CalculateScore(st.dealer.hand)]
         ELSE LET hand == Append(st.dealer.hand, cards[n])
                  s == Counting([st EXCEPT !.count = n, !.dealer.hand = hand], cards[n])
              IN IF s.err # "none" THEN s
                 ELSE [s EXCEPT !.dealer.score = CalculateScore(hand)]

\* start_round, lines 127-141: one round of the deal
DealRound(st, cards, r) ==
    LET s == DealPlayers(st, cards, 1) IN
    IF s.err # "none" THEN s ELSE DealDealer(s, cards, r)

\* a round that starts with the hands of the round before
KeptHand(h) == h

\* start_round, line 120: player.hand = []
ClearedHand(h) == <<>>

\* start_round, lines 118-141, after the reshuffle: hands cleared, two deal rounds
Deal(st, cards) ==
    LET cleared == [st EXCEPT
                      !.players = [i \in 1..Len(st.players) |->
                                     [st.players[i] EXCEPT !.hand = ClearedHand(@),
                                                           !.score = 0]],
                      !.dealer.hand = <<>>,
                      !.dealer.score = 0]
        s == DealRound(cleared, cards, 0)
    IN IF s.err # "none" THEN s ELSE DealRound(s, cards, 1)

\* play_dealer_turn, lines 191-197: the dealer draws below DEALER_STAND_SCORE
RECURSIVE DealerLoop(_, _)
DealerLoop(st, cards) ==
    IF st.err # "none" THEN st
    ELSE IF st.dealer.score < rules.DEALER_STAND_SCORE /\ st.dealer.score <= 21
         THEN LET n == st.count + 1 IN
              IF PastTheEnd(cards, n)
              THEN [st EXCEPT !.count = n, !.err = "IndexError"]
              ELSE LET hand == Append(st.dealer.hand, cards[n])
                       s == Counting([st EXCEPT !.count = n, !.dealer.hand = hand],
                                     cards[n])
                   IN IF s.err # "none" THEN s
                      ELSE DealerLoop([s EXCEPT !.dealer.score = CalculateScore(hand)],
                                      cards)
         ELSE st

\* play_dealer_turn, lines 184-197: hide_card is revealed and counted, then the
\* dealer draws
DealerTurn(st, cards) ==
    IF st.dealer.hide_card = NoCard THEN DealerLoop(st, cards)
    ELSE LET hand == Append(st.dealer.hand, st.dealer.hide_card)
             s == Counting([st EXCEPT !.dealer.hand = hand], st.dealer.hide_card)
         IN IF s.err # "none" THEN s
            ELSE DealerLoop([s EXCEPT !.dealer.hide_card = NoCard,
                                      !.dealer.score = CalculateScore(hand)], cards)

\* bets.get(player.name, 0), line 216
BetOf(b, name) == IF name \in DOMAIN b THEN b[name] ELSE 0

\* a draw that costs the player the bet
PushLoses(bet) == 0 - bet

\* settle_bets, lines 253-255: settle_bet(0) on equal scores
Push(bet) == 0

\* settle_bets, lines 217-267: what settle_bet is called with for player p
Winnings(p, d, bet, payout) ==
    IF p.score > 21 THEN 0 - bet
    ELSE IF d.score > 21 THEN bet
    ELSE IF Len(p.hand) = 2 /\ p.score = 21 /\ ~(Len(d.hand) = 2 /\ d.score = 21)
         THEN (bet * payout[1]) \div payout[2]
    ELSE IF p.score > d.score THEN bet
    ELSE IF p.score = d.score THEN Push(bet)
    ELSE 0 - bet

\* settle_bets, lines 215-267: every player's chips after settle_bet
Settled(ps, d, b, payout) ==
    [i \in 1..Len(ps) |->
        [ps[i] EXCEPT !.chips = @ + Winnings(ps[i], d, BetOf(b, ps[i].name), payout)]]

\* place_bets, line 150: the bet drawn for a player with chips
DrawnBet(draw, chips) == IF draw = "least" THEN 10 ELSE Least(100, chips)

\* place_bets, lines 149-152, from player i on: randint raises ValueError for an
\* empty range; Player.place_bet (players.py, lines 70-71) caps the bet
RECURSIVE PlaceFrom(_, _, _)
PlaceFrom(pb, draw, i) ==
    IF i > Len(players) THEN pb
    ELSE IF Least(100, players[i].chips) < 10 THEN [pb EXCEPT !.err = "ValueError"]
    ELSE PlaceFrom([pb EXCEPT !.bets =
                        [n \in DOMAIN pb.bets \cup {players[i].name} |->
                            IF n = players[i].name
                            THEN Least(DrawnBet(draw, players[i].chips), players[i].chips)
                            ELSE pb.bets[n]]],
                   draw, i + 1)

PlaceBets(draw) == PlaceFrom([bets |-> NoBets, err |-> "none"], draw, 1)

\* add_player, line 75, for the bots of seats: hands empty, score 0
Seated(seats) ==
    [i \in 1..Len(seats) |->
        [name |-> seats[i].name, strategy |-> seats[i].strategy,
         chips |-> seats[i].chips, hand |-> <<>>, score |-> 0]]

\* add_player, lines 76-79: the bots that had a CountingStrategy when added
Roster(seats) ==
    SelectSeq([i \in 1..Len(seats) |-> i], LAMBDA i : seats[i].strategy = "counting")

GameInit ==
    /\ PoolIdle
    /\ ProductIdle
    /\ CacheIdle
    /\ PrimeIdle
    /\ TreapIdle
    /\ \E seats \in SeatInputs :
        /\ players = Seated(seats)
        /\ counting_players = Roster(seats)
    /\ GameFresh

\* Game.shuffle, lines 107-108: count = 0 is assigned on the strategy of every
\* listed bot; it resets the CountingStrategy object when one of them has it
CountAfterShuffle ==
    IF \E j \in 1..Len(counting_players) :
            players[counting_players[j]].strategy = "counting"
    THEN 0
    ELSE strategy_count

\* ---- Game.shuffle, lines 104-108, called before the first round (as play
\* does, line 358)
Shuffle ==
    /\ gpc = "idle"
    /\ round_count = 0
    /\ deck_cards' \in ShuffleOutcomes
    /\ deck_count' = 0
    /\ strategy_count' = CountAfterShuffle
    /\ last_op' = "shuffle"
    /\ gerr' = "none"
    /\ UNCHANGED <<players, counting_players, dealer, bets, game_over, round_count,
                   rules, gpc, turn>>
    /\ UNCHANGED <<threadPoolVars, productVars, cacheVars, primeVars, treapVars>>

\* start_round, lines 116-117: the deck is reshuffled at STOP_CARD cards dealt
MustReshuffle == deck_count >= rules.STOP_CARD

\* start_round, lines 116-144: the effect of the whole method
StartRoundEffect ==
    \E d \in (IF MustReshuffle THEN ShuffleOutcomes ELSE {deck_cards}) :
        LET s == Deal([Working EXCEPT
                          !.count = IF MustReshuffle THEN 0 ELSE deck_count,
                          !.scount = IF MustReshuffle THEN CountAfterShuffle
                                     ELSE strategy_count], d)
        IN /\ deck_cards' = d
           /\ deck_count' = s.count
           /\ players' = s.players
           /\ dealer' = s.dealer
           /\ strategy_count' = s.scount
           /\ gerr' = s.err
           /\ game_over' = IF s.err = "none" THEN FALSE ELSE game_over

\* ---- Game.start_round, called on its own before the first round
StartRound ==
    /\ gpc = "idle"
    /\ round_count = 0
    /\ StartRoundEffect
    /\ last_op' = "start_round"
    /\ UNCHANGED <<counting_players, bets, round_count, rules, gpc, turn>>
    /\ UNCHANGED <<threadPoolVars, productVars, cacheVars, primeVars, treapVars>>

\* ---- Game.play_round, lines 336-340: round_count += 1, then place_bets
PlayRound(draw) ==
    /\ gpc = "idle"
    /\ round_count < MaxRounds
    /\ round_count' = round_count + 1
    /\ last_op' = "play_round"
    /\ bets' = PlaceBets(draw).bets
    /\ gerr' = PlaceBets(draw).err
    /\ gpc' = IF PlaceBets(draw).err = "none" THEN "start_round" ELSE "idle"
    /\ UNCHANGED <<deck_cards, deck_count, players, counting_players, strategy_count,
                   dealer, game_over, rules, turn>>
    /\ UNCHANGED <<threadPoolVars, productVars, cacheVars, primeVars, treapVars>>

\* ---- play_round, line 341: self.start_round()
RoundDeal ==
    /\ gpc = "start_round"
    /\ StartRoundEffect
    /\ gpc' = IF gerr' = "none" THEN "turns" ELSE "idle"
    /\ turn' = 1
    /\ UNCHANGED <<counting_players, bets, round_count, rules, last_op>>
    /\ UNCHANGED <<threadPoolVars, productVars, cacheVars, primeVars, treapVars>>

\* ---- play_round, lines 345-346: self.play_turn(player) for the next player
RoundTurn ==
    /\ gpc = "turns"
    /\ turn <= Len(players)
    /\ LET s == IF game_over THEN Working ELSE HitLoop(Working, deck_cards, turn) IN
        /\ deck_count' = s.count
        /\ players' = s.players
        /\ strategy_count' = s.scount
        /\ gerr' = s.err
        /\ gpc' = IF s.err = "none" THEN "turns" ELSE "idle"
    /\ turn' = turn + 1
    /\ UNCHANGED <<deck_cards, counting_players, dealer, bets, game_over, round_count,
                   rules, last_op>>
    /\ UNCHANGED <<threadPoolVars, productVars, cacheVars, primeVars, treapVars>>

\* ---- play_round, line 348: self.play_dealer_turn() (lines 182-202)
RoundDealer ==
    /\ gpc = "turns"
    /\ turn > Len(players)
    /\ LET s == DealerTurn(Working, deck_cards) IN
        /\ deck_count' = s.count
        /\ dealer' = s.dealer
        /\ strategy_count' = s.scount
        /\ gerr' = s.err
        /\ gpc' = IF s.err = "none" THEN "settle" ELSE "idle"
        /\ game_over' = IF s.err = "none" /\ rules.MAX_ROUND = round_count
                        THEN TRUE ELSE game_over
    /\ UNCHANGED <<deck_cards, players, counting_players, bets, round_count, rules,
                   turn, last_op>>
    /\ UNCHANGED <<threadPoolVars, productVars, cacheVars, primeVars, treapVars>>

\* ---- play_round, line 349: self.settle_bets() (lines 204-267)
RoundSettle ==
    /\ gpc = "settle"
    /\ players' = Settled(players, dealer, bets, rules.BLACKJACK_PAYOUT)
    /\ gpc' = "idle"
    /\ gerr' = "none"
    /\ UNCHANGED <<deck_cards, deck_count, counting_players, strategy_count, dealer,
                   bets, game_over, round_count, rules, turn, last_op>>
    /\ UNCHANGED <<threadPoolVars, productVars, cacheVars, primeVars, treapVars>>

\* change_bot_strategy, lines 298-300: the first seated bot of that name
FirstNamed(name) ==
    CHOOSE i \in 1..Len(players) :
        /\ players[i].name = name
        /\ \A j \in 1..(i - 1) : players[j].name # name

\* ---- Game.change_bot_strategy, lines 284-308, called before the first
\* round; counting_players is left alone
ChangeBotStrategy(c) ==
    /\ gpc = "idle"
    /\ round_count = 0
    /\ last_op' = "change_bot_strategy"
    /\ IF (\E i \in 1..Len(players) : players[i].name = c[1]) /\ c[2] \in StrategyNames
       THEN /\ players' = [players EXCEPT ![FirstNamed(c[1])].strategy = c[2]]
            /\ gerr' = "none"
       ELSE /\ players' = players
            /\ gerr' = "ValueError"
    /\ UNCHANGED <<deck_cards, deck_count, counting_players, strategy_count, dealer,
                   bets, game_over, round_count, rules, gpc, turn>>
    /\ UNCHANGED <<threadPoolVars, productVars, cacheVars, primeVars, treapVars>>

GameNext ==
    \/ Shuffle
    \/ StartRound
    \/ \E draw \in BetDraws : PlayRound(draw)
    \/ RoundDeal
    \/ RoundTurn
    \/ RoundDealer
    \/ RoundSettle
    \/ \E c \in ChangeInputs : ChangeBotStrategy(c)

GameSpec == GameInit /\ [][GameNext]_vars

\* ---- settle_bets called on a table set by hand, as test_settle_bets does
\* (test_black_jack.py, lines 102-113)

\* the two bots of the table
SettleSeats ==
    << [name |-> "Bot1", strategy |-> "accurate", chips |-> 1000],
       [name |-> "Bot2", strategy |-> "aggressive", chips |-> 1000] >>

\* the hands on the table: none, a two-card 21, a three-card 21, 20, 19, 18
\* and an overage of 24
HandInputs ==
    { <<>>, <<"A", "K">>, <<"7", "7", "7">>, <<"10", "Q">>, <<"10", "9">>,
      <<"10", "8">>, <<"10", "6", "8">> }

\* the amounts recorded in self.bets
BetInputs == {10, 15, 100}

\* self.bets: an amount for some of the names, none for the others
TableBets(names) == UNION { [S -> BetInputs] : S \in SUBSET names }

SettleInit ==
    /\ PoolIdle
    /\ ProductIdle
    /\ CacheIdle
    /\ PrimeIdle
    /\ TreapIdle
    /\ \E h \in [1..Len(SettleSeats) -> HandInputs] :
        players = [i \in 1..Len(SettleSeats) |->
                     [Seated(SettleSeats)[i] EXCEPT !.hand = h[i],
                                                    !.score = CalculateScore(h[i])]]
    /\ counting_players = Roster(SettleSeats)
    /\ \E h \in HandInputs :
        dealer = [NewDealer EXCEPT !.hand = h, !.score = CalculateScore(h)]
    /\ bets \in TableBets({SettleSeats[i].name : i \in 1..Len(SettleSeats)})
    /\ deck_cards = NewDeck
    /\ deck_count = 0
    /\ strategy_count = 0
    /\ game_over = FALSE
    /\ round_count = 0
    /\ rules = DefaultRules
    /\ gpc = "idle"
    /\ turn = 0
    /\ last_op = "__init__"
    /\ gerr = "none"

\* ---- Game.settle_bets, lines 204-267, called on its own
SettleBets ==
    /\ gpc = "idle"
    /\ last_op = "__init__"
    /\ players' = Settled(players, dealer, bets, rules.BLACKJACK_PAYOUT)
    /\ last_op' = "settle_bets"
    /\ gerr' = "none"
    /\ UNCHANGED <<deck_cards, deck_count, counting_players, strategy_count, dealer,
                   bets, game_over, round_count, rules, gpc, turn>>
    /\ UNCHANGED <<threadPoolVars, productVars, cacheVars, primeVars, treapVars>>

SettleNext == SettleBets

SettleSpec == SettleInit /\ [][SettleNext]_vars

\* ---- Game.play (lines 351-360) and Game.modify_game_rule (lines 310-327),
\* called on a game in any state its other methods leave it in

\* the values modify_game_rule("MAX_ROUND", value) is called with
RuleInputs == {1, 3}

\* play() has been called and has neither returned nor raised: it is in a
\* round, or about to test game_over at line 359 with game_over false
InPlay ==
    /\ last_op = "play"
    /\ gerr = "none"
    /\ (gpc # "idle" \/ ~game_over)

\* ---- modify_game_rule("MAX_ROUND", v), lines 322-323, called between rounds
ModifyGameRule(v) ==
    /\ gpc = "idle"
    /\ ~InPlay
    /\ rules' = [rules EXCEPT !.MAX_ROUND = v]
    /\ last_op' = "modify_game_rule"
    /\ gerr' = "none"
    /\ UNCHANGED <<deck_cards, deck_count, players, counting_players, strategy_count,
                   dealer, bets, game_over, round_count, gpc, turn>>
    /\ UNCHANGED <<threadPoolVars, productVars, cacheVars, primeVars, treapVars>>

\* ---- play(), line 358: self.shuffle(); the loop follows
Play ==
    /\ gpc = "idle"
    /\ ~InPlay
    /\ deck_cards' \in ShuffleOutcomes
    /\ deck_count' = 0
    /\ strategy_count' = CountAfterShuffle
    /\ last_op' = "play"
    /\ gerr' = "none"
    /\ UNCHANGED <<players, counting_players, dealer, bets, game_over, round_count,
                   rules, gpc, turn>>
    /\ UNCHANGED <<threadPoolVars, productVars, cacheVars, primeVars, treapVars>>

\* ---- play(), lines 359-360: game_over is false, play_round is called
\* (lines 336-340: round_count += 1, then place_bets)
PlayLoop(draw) ==
    /\ InPlay
    /\ gpc = "idle"
    /\ round_count < MaxRounds
    /\ round_count' = round_count + 1
    /\ bets' = PlaceBets(draw).bets
    /\ gerr' = PlaceBets(draw).err
    /\ gpc' = IF PlaceBets(draw).err = "none" THEN "start_round" ELSE "idle"
    /\ UNCHANGED <<deck_cards, deck_count, players, counting_players, strategy_count,
                   dealer, game_over, rules, turn, last_op>>
    /\ UNCHANGED <<threadPoolVars, productVars, cacheVars, primeVars, treapVars>>

\* ---- play_round called by the program, outside play()
ManualRound(draw) == ~InPlay /\ PlayRound(draw)

PlayNext ==
    \/ \E v \in RuleInputs : ModifyGameRule(v)
    \/ \E draw \in BetDraws : ManualRound(draw)
    \/ Play
    \/ \E draw \in BetDraws : PlayLoop(draw)
    \/ RoundDeal
    \/ RoundTurn
    \/ RoundDealer
    \/ RoundSettle

PlaySpec == GameInit /\ [][PlayNext]_vars

\* ---- project/Treap/treap.py: class Treap
MaxKey == 3
MaxPriority == 3

\* the keys and the values the treap is called with, and the priorities
\* random.randint draws at line 32
TreapKeys == 1..MaxKey
TreapValues == {"a", "b"}
Priorities == 1..MaxPriority

\* TreapNode.__init__, lines 29-35
NewNode(key, value, priority) ==
    [key |-> key, value |-> value, priority |-> priority,
     left |-> NoNode, right |-> NoNode]

\* Treap.split, lines 74-81
RECURSIVE Split(_, _)
Split(node, key) ==
    IF node = NoNode THEN <<NoNode, NoNode>>
    ELSE IF key < node.key
         THEN LET s == Split(node.left, key) IN <<s[1], [node EXCEPT !.left = s[2]]>>
         ELSE LET s == Split(node.right, key) IN <<[node EXCEPT !.right = s[1]], s[2]>>

\* a merge that puts the node of lower priority on top
WinsLower(l, r) == l.priority < r.priority

\* line 103: left_node.priority > right_node.priority
Wins(l, r) == l.priority > r.priority

\* Treap.merge, lines 99-108
RECURSIVE Merge(_, _)
Merge(l, r) ==
    IF r = NoNode THEN l
    ELSE IF l = NoNode THEN r
    ELSE IF Wins(l, r) THEN [l EXCEPT !.right = Merge(l.right, r)]
    ELSE [r EXCEPT !.left = Merge(l, r.left)]

\* Treap.get_node, lines 196-204, from node down; also the search of
\* __delitem__, lines 240-245
RECURSIVE GetNode(_, _)
GetNode(node, key) ==
    IF node = NoNode THEN NoNode
    ELSE IF key = node.key THEN node
    ELSE IF key < node.key THEN GetNode(node.left, key)
    ELSE GetNode(node.right, key)

\* line 127: new_node.value = value, on the node get_node found
RECURSIVE WithValue(_, _, _)
WithValue(node, key, value) ==
    IF node = NoNode THEN NoNode
    ELSE IF key = node.key THEN [node EXCEPT !.value = value]
    ELSE IF key < node.key THEN [node EXCEPT !.left = WithValue(node.left, key, value)]
    ELSE [node EXCEPT !.right = WithValue(node.right, key, value)]

\* Treap.insert, lines 125-132, called with node = self.root (line 181)
Insert(node, key, value, priority) ==
    IF GetNode(node, key) # NoNode THEN WithValue(node, key, value)
    ELSE LET s == Split(node, key) IN
         Merge(Merge(s[1], NewNode(key, value, priority)), s[2])

\* __delitem__, lines 250-257, for a key the search found: the node is
\* replaced, in its parent or in self.root, by the merge of its children
RECURSIVE Removed(_, _)
Removed(node, key) ==
    IF key = node.key THEN Merge(node.left, node.right)
    ELSE IF key < node.key THEN [node EXCEPT !.left = Removed(node.left, key)]
    ELSE [node EXCEPT !.right = Removed(node.right, key)]

\* inorder_iter, lines 287-290: the keys __iter__ yields
RECURSIVE InorderIter(_)
InorderIter(node) ==
    IF node = NoNode THEN <<>>
    ELSE InorderIter(node.left) \o <<node.key>> \o InorderIter(node.right)

\* a dict after d[key] = value
DictSet(d, key, value) ==
    [kk \in DOMAIN d \cup {key} |-> IF kk = key THEN value ELSE d[kk]]

\* a dict after del d[key]
DictDel(d, key) == [kk \in DOMAIN d \ {key} |-> d[kk]]

TreapInit ==
    /\ PoolIdle
    /\ ProductIdle
    /\ CacheIdle
    /\ PrimeIdle
    /\ GameIdle
    /\ TreapIdle

\* ---- Treap.__setitem__, line 181
SetItemCall(key, value, priority) ==
    /\ troot' = Insert(troot, key, value, priority)
    /\ tref' = DictSet(tref, key, value)
    /\ terr' = "none"
    /\ tlast' = [op |-> "__setitem__", key |-> key, stored |-> key \in DOMAIN tref]
    /\ UNCHANGED tsplit
    /\ UNCHANGED <<threadPoolVars, productVars, cacheVars, primeVars, gameVars>>

\* ---- Treap.__delitem__, lines 237-257; del on the dict raises KeyError for
\* a key it does not hold
DelItemCall(key) ==
    /\ IF GetNode(troot, key) = NoNode
       THEN /\ troot' = troot
            /\ terr' = "KeyError"
       ELSE /\ troot' = Removed(troot, key)
            /\ terr' = "none"
    /\ tref' = DictDel(tref, key)
    /\ tlast' = [op |-> "__delitem__", key |-> key, stored |-> key \in DOMAIN tref]
    /\ UNCHANGED tsplit
    /\ UNCHANGED <<threadPoolVars, productVars, cacheVars, primeVars, gameVars>>

TreapNext ==
    \/ \E key \in TreapKeys, value \in TreapValues, priority \in Priorities :
        SetItemCall(key, value, priority)
    \/ \E key \in TreapKeys : DelItemCall(key)

TreapSpec == TreapInit /\ [][TreapNext]_vars

\* ---- Treap.split(self.root, key), lines 58-81, called on the tree the
\* operations before it built.  split relinks the nodes of the tree it is
\* given: self.root still refers to the old root node, which is now the root
\* of the part it went to.
SplitCall(key) ==
    /\ tsplit = NoSplit
    /\ LET s == Split(troot, key) IN
        /\ tsplit' = [key |-> key, node |-> troot, left |-> s[1], right |-> s[2]]
        /\ troot' = IF troot = NoNode THEN NoNode
                    ELSE IF key < troot.key THEN s[2] ELSE s[1]
    /\ terr' = "none"
    /\ tlast' = [op |-> "split", key |-> key, stored |-> key \in DOMAIN tref]
    /\ UNCHANGED tref
    /\ UNCHANGED <<threadPoolVars, productVars, cacheVars, primeVars, gameVars>>

SplitNext ==
    \/ tsplit = NoSplit /\ TreapNext
    \/ \E key \in TreapKeys : SplitCall(key)

SplitSpec == TreapInit /\ [][SplitNext]_vars

\* ---------------------------------------------------------------------------
\* Properties
\* ---------------------------------------------------------------------------

Distinct(s) == \A i, j \in 1..Len(s) : i # j => s[i] # s[j]

IsPrefix(s, t) == Len(s) <= Len(t) /\ SubSeq(t, 1, Len(s)) = s

\* position of x in s (0 when absent)
Pos(s, x) == IF \E i \in 1..Len(s) : s[i] = x
             THEN CHOOSE i \in 1..Len(s) : s[i] = x
             ELSE 0

\* no task body has raised
NoRaise == \A w \in Workers : pc[w] # "dead"

\* a task body has ended, by returning or by raising
Completed(t) == ran[t] > 0 \/ \E w \in Workers : pc[w] = "dead" /\ cur[w] = t

\* dispose was called, and every enqueue call had returned before the first dispose call
EnqueuesThenDispose == dcalls > 0 /\ ~late

\* C1: exactly-once execution. No tuple is popped twice or invoked twice in
\* any state; and once a dispose call has returned on a pool of at least one
\* worker, all enqueue calls having preceded dispose and no body having
\* raised, every enqueued tuple has been popped and invoked exactly once, so
\* exactly N invocations have occurred.
ExactlyOnce ==
    /\ Distinct(deqLog)
    /\ \A t \in 1..MaxTasks : ran[t] <= 1
    /\ (thread_num >= 1 /\ dreturned >= 1 /\ NoRaise /\ EnqueuesThenDispose)
        => /\ \A t \in 1..calls : ran[t] = 1
           /\ \A t \in (calls + 1)..MaxTasks : ran[t] = 0
           /\ deqLog = enqLog
           /\ Len(deqLog) = calls

ExactlyOnceWitness ==
    /\ thread_num >= 2
    /\ dreturned >= 1
    /\ NoRaise
    /\ EnqueuesThenDispose
    /\ calls >= 2

\* C2 (as claimed): graceful drain. When K enqueue calls had returned before
\* dispose was called on a pool of at least one worker, then once a dispose
\* call has returned every one of the K tuples has completed its execution.
GracefulDrain ==
    (thread_num >= 1 /\ dreturned >= 1 /\ EnqueuesThenDispose)
        => \A t \in 1..calls : Completed(t)

\* C3 (as claimed): postcondition of dispose. In every state in which a dispose
\* call has returned (pool of at least one worker, every enqueue call made
\* before dispose), the stop flag is set, the queue is empty and every worker
\* has terminated.
DisposePostcondition ==
    (thread_num >= 1 /\ dreturned >= 1 /\ EnqueuesThenDispose)
        => /\ stop_flag
           /\ tasks_queue = <<>>
           /\ \A i \in 1..Len(threads) : Terminated(threads[i])

\* C4: FIFO dequeue order. The sequence of pops is a prefix of the sequence of
\* appends and the queue holds exactly the rest, in order, so a tuple is
\* popped only after every tuple appended before it; appends and pops only
\* extend the two sequences; and at the step where an enqueue call begins,
\* every tuple whose enqueue has returned is already appended and the new
\* tuple is not, so it is appended, and popped, after them.
FifoOrder ==
    /\ [](/\ enqLog = deqLog \o tasks_queue
          /\ IsPrefix(deqLog, enqLog)
          /\ Distinct(enqLog)
          /\ \A a, b \in Range(deqLog) :
                Pos(enqLog, a) < Pos(enqLog, b) => Pos(deqLog, a) < Pos(deqLog, b)
          /\ \A a \in Range(enqLog) : \A b \in Range(deqLog) :
                Pos(enqLog, a) < Pos(enqLog, b) => a \in Range(deqLog))
    /\ [][IsPrefix(enqLog, enqLog') /\ IsPrefix(deqLog, deqLog')]_vars
    /\ [][\A c \in Clients : (cpc[c] = "idle" /\ cpc'[c] = "l95")
            => (Returned \subseteq Range(enqLog) /\ ctask'[c] \notin Range(enqLog'))]_vars

\* two tuples enqueued one after the other are popped in that order by two workers
FifoOrderWitness ==
    /\ thread_num >= 2
    /\ enqLog = <<1, 2>>
    /\ deqLog = <<1, 2>>
    /\ cur[1] # cur[2]
    /\ pc[1] = "l78"
    /\ pc[2] = "l78"

\* C5: dispose terminates. With fair scheduling and task bodies that end, every
\* dispose call returns (whenever fewer calls have returned than were made,
\* later as many have returned as were made); and when dispose has returned on
\* a pool on which enqueue was never called, nothing was popped and nothing
\* was invoked.
DisposeTerminates ==
    /\ (dreturned < dcalls) ~> (dreturned = dcalls)
    /\ []((dreturned >= 1 /\ calls = 0)
            => (deqLog = <<>> /\ \A t \in 1..MaxTasks : ran[t] = 0))

DisposeTerminatesWitness ==
    /\ thread_num >= 2
    /\ calls = 0
    /\ dreturned >= 1
    /\ \A i \in 1..thread_num : pc[i] = "done"

\* C6: parallelism. A worker executing a task does not hold the lock, and
\* tasks in execution at the same time are distinct tuples on distinct workers;
\* and on a pool of W >= 2 workers, W barrier tasks appended before any
\* dispose all complete.
Parallelism ==
    /\ [](\A w \in Workers : pc[w] = "l78" => lock # w)
    /\ [](\A w, v \in Workers :
            (w # v /\ pc[w] = "l78" /\ pc[v] = "l78") => cur[w] # cur[v])
    /\ (thread_num >= 2 /\ ~stop_flag /\ Len(enqLog) >= thread_num)
         ~> (\A i \in 1..thread_num : i <= Len(enqLog) /\ ran[enqLog[i]] = 1)

\* W >= 2 tasks simultaneously in execution on the W workers
ParallelismWitness ==
    /\ thread_num >= 2
    /\ \A i \in 1..thread_num : pc[i] = "l78"
    /\ lock = Free

\* the positions at which a thread reads or writes tasks_queue or stop_flag
WorkerInSection(w) == pc[w] \in {"l66", "l69", "l73"}
ClientInSection(c) == cpc[c] \in {"l96", "l97", "l114", "l115"}

\* C7: mutual exclusion. A thread about to read or write tasks_queue or
\* stop_flag owns the lock, at most one thread is in such a section, and no
\* tuple is popped by two workers.
MutualExclusion ==
    /\ \A w \in Workers : WorkerInSection(w) => lock = w
    /\ \A c \in Clients : ClientInSection(c) => lock = c
    /\ Cardinality({w \in Workers : WorkerInSection(w)})
         + Cardinality({c \in Clients : ClientInSection(c)}) <= 1
    /\ Distinct(deqLog)
    /\ \A w, v \in Workers :
         (w # v /\ cur[w] # NoTask /\ cur[v] # NoTask) => cur[w] # cur[v]

MutualExclusionWitness ==
    /\ \E w \in Workers :
        /\ pc[w] = "l73"
        /\ lock = w
        /\ tasks_queue # <<>>
        /\ \E v \in Workers : v # w /\ pc[v] \in {"l65", "l72", "woken"}
    /\ \E c \in Clients : cpc[c] \in {"l95", "l113"}

\* C8: stop flag monotonicity. The flag is false until a dispose call sets it,
\* is true from line 114 of the first dispose on, and no step resets it.
StopFlagMonotone ==
    /\ [](stop_flag => dcalls >= 1)
    /\ []((dreturned >= 1 \/ \E c \in Clients : cpc[c] \in {"l115", "l117"}) => stop_flag)
    /\ [][stop_flag => stop_flag']_vars

\* a second dispose has passed line 114 after the first one returned
StopFlagMonotoneWitness ==
    /\ dreturned >= 1
    /\ stop_flag
    /\ \E c \in Clients : cpc[c] = "l115"
    /\ calls >= 1

\* worker threads that were started and have not ended
Alive == {w \in Workers : pc[w] \notin {"new", "done", "dead"}}

\* C9: fixed worker set. At most thread_num workers are ever started, exactly
\* thread_num once __init__ has returned, self.threads never changes after
\* that, and while the stop flag is unset and no body has raised every one of
\* them is alive.
FixedWorkerSet ==
    /\ [](Len(threads) <= thread_num /\ threads = [i \in 1..Len(threads) |-> i])
    /\ []((Constructed /\ ~stop_flag /\ NoRaise)
            => (Alive = 1..thread_num /\ Cardinality(Alive) = thread_num))
    /\ [][Constructed => threads' = threads]_vars

\* an idle worker and a worker that has just finished a task, before any dispose
FixedWorkerSetWitness ==
    /\ thread_num >= 2
    /\ ~stop_flag
    /\ dcalls = 0
    /\ NoRaise
    /\ \E w \in Workers : pc[w] = "wait"
    /\ \E w \in Workers : pc[w] = "l65"
    /\ \E t \in 1..MaxTasks : ran[t] = 1

\* C10: enqueue never blocks on work. With fair scheduling every enqueue call
\* returns, also when task bodies never end.
EnqueueReturns ==
    \A c \in Clients : (cpc[c] = "l95") ~> (cpc[c] = "idle")

\* an enqueue has appended while every worker is executing a task
EnqueueReturnsWitness ==
    /\ thread_num >= 1
    /\ \A i \in 1..thread_num : pc[i] = "l78"
    /\ \E c \in Clients : cpc[c] = "l97"

\* C11: zero workers. A pool constructed with thread_num = 0 starts no worker;
\* its enqueue calls append their tuples, which all stay in the queue, and no
\* tuple is ever popped or invoked, before or after dispose.
ZeroWorkers ==
    thread_num = 0 =>
        /\ threads = <<>>
        /\ \A w \in Workers : pc[w] = "new"
        /\ tasks_queue = enqLog
        /\ deqLog = <<>>
        /\ \A t \in 1..MaxTasks : ran[t] = 0

\* a pool without workers whose dispose has returned with every tuple still queued
ZeroWorkersWitness ==
    /\ thread_num = 0
    /\ Len(tasks_queue) = MaxTasks
    /\ dreturned >= 1
    /\ late

\* the ways to pick one position in each list of ss
RECURSIVE Picks(_)
Picks(ss) ==
    IF ss = <<>> THEN {<<>>}
    ELSE {<<i>> \o r : i \in 1..Len(Head(ss)), r \in Picks(Tail(ss))}

\* the sum of the elements picked by f
RECURSIVE PickSum(_, _, _)
PickSum(ss, f, i) == IF i = 0 THEN 0 ELSE ss[i][f[i]] + PickSum(ss, f, i - 1)

\* the sum of PickSum over a set of picks
RECURSIVE PicksTotal(_, _)
PicksTotal(ss, F) ==
    IF F = {} THEN 0
    ELSE LET f == CHOOSE g \in F : TRUE
         IN PickSum(ss, f, Len(ss)) + PicksTotal(ss, F \ {f})

\* C12: cartesian_product_sum returns the sum, over every tuple of the Cartesian
\* product of the lists, of the tuple's elements, whatever max_workers is and
\* in whatever order the worker processes finish.
ProductSumCorrect ==
    spc = "returned" => total_sum = PicksTotal(sets, Picks(sets))

\* a call with two or more worker processes has returned after the futures of
\* eight tuples completed out of submission order
ProductSumCorrectWitness ==
    /\ spc = "returned"
    /\ max_workers >= 2
    /\ Len(items) = 8
    /\ total_sum = 84
    /\ \E i, j \in 1..Len(order) : i < j /\ order[i] > order[j]

\* C13: cache with max_size = 0 stores nothing. The cache is empty in every
\* state and every wrapper call, repeated arguments included, has invoked the
\* wrapped function.
NoCaching ==
    max_size = 0 => (cached = <<>> /\ invocations = Len(callLog))

\* with max_size = 0 the same key was called twice and both calls have returned
NoCachingWitness ==
    /\ max_size = 0
    /\ stack = <<>>
    /\ invocations >= 2
    /\ \E i, j \in 1..Len(callLog) : i < j /\ callLog[i] = callLog[j]

\* C14: cache with max_size > 0. A call whose key is stored returns the stored
\* result and invokes nothing; a call whose key is not stored invokes the
\* wrapped function once, and when that invocation returns its result is
\* returned and stored under the key; so invocations equal misses.
HitOrInvoke ==
    /\ [](max_size > 0 => invocations = misses)
    /\ [][\A a \in CallInputs : (max_size > 0 /\ WrapperCall(a)) =>
            IF Key(a) \in Keys(cached)
            THEN /\ invocations' = invocations
                 /\ stack' = stack
                 /\ last' = [key |-> Key(a), result |-> Lookup(cached, Key(a)),
                             hit |-> TRUE]
            ELSE /\ invocations' = invocations + 1
                 /\ Len(stack') = Len(stack) + 1
                 /\ stack'[Len(stack')].key = Key(a)]_vars
    /\ [][(max_size > 0 /\ FunctionReturn) =>
            /\ last'.key \in Keys(cached')
            /\ Lookup(cached', last'.key) = last'.result
            /\ last'.result = stack[Len(stack)].inv
            /\ invocations' = invocations]_vars

\* a stored key given with its keyword arguments in another order was answered
\* from the cache, after three calls of which two were misses
HitOrInvokeWitness ==
    /\ max_size > 0
    /\ last.hit
    /\ Cardinality(last.key[2]) = 2
    /\ Len(callLog) = 3
    /\ invocations = 2

\* n has no divisor other than 1 and itself
IsPrime(n) == n > 1 /\ \A d \in 2..(n - 1) : n % d # 0

\* the n-th prime, counting from 1
NthPrime(n) ==
    CHOOSE p \in 2..(n * n + 1) :
        IsPrime(p) /\ Cardinality({q \in 2..p : IsPrime(q)}) = n

\* the latest call of wrapper has ended
CallEnded == kpc = "idle" /\ outcome # "none"

\* C15: prime_dec returns the k-th prime. A call with a positive k that is not
\* below last_k returns the k-th prime (1 -> 2, 10 -> 29); a call that repeats
\* last_k returns the prime returned before and takes nothing from the generator.
KthPrime ==
    /\ (CallEnded /\ k >= 1 /\ k >= pre[1]) =>
            (outcome = "returned" /\ ret = NthPrime(k) /\ last_k = k)
    /\ (CallEnded /\ k >= 1 /\ k = pre[1]) => (ret = pre[2] /\ gen_num = pre[3])
    /\ (CallEnded /\ outcome = "returned" /\ k = 1) => ret = 2
    /\ (CallEnded /\ outcome = "returned" /\ k = 10) => ret = 29

\* the tenth prime was asked for twice in a row
KthPrimeWitness ==
    /\ CallEnded
    /\ prev = "returned"
    /\ outcome = "returned"
    /\ k = 10
    /\ pre[1] = 10
    /\ ret = 29

\* C16: a call with k below last_k raises ValueError and leaves last_k,
\* last_prime and the generator as they were, so a following call with last_k
\* returns the same prime again.
SmallerKRejected ==
    /\ (CallEnded /\ k < pre[1]) =>
            (outcome = "ValueError" /\ <<last_k, last_prime, gen_num>> = pre)
    /\ (CallEnded /\ prev = "ValueError" /\ k = pre[1] /\ k >= 1) =>
            (outcome = "returned" /\ ret = pre[2] /\ ret = NthPrime(k))

\* after a rejected smaller k, the call with last_k returned the same prime
SmallerKRejectedWitness ==
    /\ CallEnded
    /\ prev = "ValueError"
    /\ outcome = "returned"
    /\ k = pre[1]
    /\ k >= 2
    /\ ret = pre[2]

\* C17: every call with k <= 0 raises ValueError or TypeError and changes
\* neither last_k nor last_prime, in every state of the decorated function.
InvalidKRejected ==
    (CallEnded /\ k <= 0) =>
        /\ outcome \in {"ValueError", "TypeError"}
        /\ last_k = pre[1]
        /\ last_prime = pre[2]

\* start_round has returned: called on its own, or as line 341 of play_round
DealDone ==
    \/ gpc = "idle" /\ last_op = "start_round" /\ gerr = "none"
    \/ gpc = "turns" /\ turn = 1

\* counting_players lists a bot whose strategy is no CountingStrategy
StaleRoster ==
    \E j \in 1..Len(counting_players) :
        players[counting_players[j]].strategy # "counting"

\* C18: after start_round every seated player holds exactly 2 cards, the
\* dealer's visible hand holds exactly 1 card and dealer.hide_card holds one
\* further card, in any round and whatever hands were held before the call;
\* start_round never runs past the end of the deck, and it returns unless
\* Game.counting meets a bot of counting_players without a CountingStrategy.
InitialDeal ==
    /\ DealDone =>
        /\ \A i \in 1..Len(players) : Len(players[i].hand) = 2
        /\ Len(dealer.hand) = 1
        /\ dealer.hide_card # NoCard
        /\ dealer.hide_card \in Range(CardNames)
    /\ last_op = "start_round" => gerr \in {"none", "AttributeError"}
    /\ gerr = "AttributeError" => StaleRoster

\* the second round has been dealt to two bots that held three cards each at
\* the end of the first
InitialDealWitness ==
    /\ gpc = "turns"
    /\ turn = 1
    /\ round_count = 2
    /\ deck_count = 14
    /\ Len(players) = 2
    /\ players[1].hand = <<"5", "6">>
    /\ players[2].hand = <<"J", "J">>
    /\ dealer.hand = <<"K">>
    /\ dealer.hide_card = "9"

\* settle_bets runs in this step: called on its own, or as line 349 of play_round
SettleStep ==
    \/ last_op = "__init__" /\ last_op' = "settle_bets"
    \/ gpc = "settle" /\ gpc' = "idle"

\* what settle_bets adds to the chips of player i in this step
ChipsChange(i) == players'[i].chips - players[i].chips

\* C19: settle_bets changes a player's chips by -bet when the player's score
\* exceeds 21 (whatever the dealer's score), by +bet when the dealer's score
\* exceeds 21 and the player's does not, and otherwise, the player holding no
\* two-card 21, by +bet if the player's score is higher than the dealer's, 0
\* if equal and -bet if lower; without a recorded bet the chips are unchanged.
SettlementRule ==
    [][SettleStep =>
        /\ Len(players') = Len(players)
        /\ \A i \in 1..Len(players) :
            LET p == players[i]
                bet == BetOf(bets, p.name)
            IN /\ p.name \notin DOMAIN bets => ChipsChange(i) = 0
               /\ p.score > 21 => ChipsChange(i) = 0 - bet
               /\ (p.score <= 21 /\ dealer.score > 21) => ChipsChange(i) = bet
               /\ (p.score <= 21 /\ dealer.score <= 21
                        /\ ~(Len(p.hand) = 2 /\ p.score = 21)) =>
                     ChipsChange(i) = IF p.score > dealer.score THEN bet
                                      ELSE IF p.score = dealer.score THEN 0
                                      ELSE 0 - bet]_vars

\* settle_bets has run on a table where Bot1 tied with the dealer at 20 on a
\* bet of 10 and Bot2, over 21, had no recorded bet: both keep their chips
SettlementRuleWitness ==
    /\ last_op = "settle_bets"
    /\ players[1].score = 20
    /\ dealer.score = 20
    /\ DOMAIN bets = {players[1].name}
    /\ bets[players[1].name] = 10
    /\ players[1].chips = 1000
    /\ players[2].score > 21
    /\ players[2].chips = 1000

\* C20: each call to play_round completes without error and increases
\* round_count by exactly 1, and no other operation changes round_count.
RoundCounter ==
    /\ [](last_op = "play_round" => gerr = "none")
    /\ [][round_count' # round_count =>
            /\ gpc = "idle"
            /\ last_op' = "play_round"
            /\ round_count' = round_count + 1]_vars

\* worker w ends in this step, at line 70 or by an exception of line 78
Terminates(w) == ~Terminated(w) /\ Terminated(w)'

\* C21 (as claimed): a worker never terminates while the queue is non-empty.
\* At the step where a worker ends, the queue is empty and the stop flag is
\* set; so after the stop flag is set with tuples still queued, no worker ends
\* before the queue is empty.
NeverEndsNonEmpty ==
    [][\A w \in Workers : Terminates(w) => (tasks_queue = <<>> /\ stop_flag)]_vars

\* C22: in-flight work is not abandoned. A worker executing a task leaves
\* line 78 only when the body ends, whatever happens to the stop flag
\* meanwhile; a worker that reads the stop flag (lines 66, 69) or that has
\* left its loop has no task in hand; and while any task is in execution no
\* dispose call has returned, so when one has returned every popped tuple has
\* completed.
InFlightCompleted ==
    /\ [](\A w \in Workers : pc[w] \in {"l66", "l69", "done"} => cur[w] = NoTask)
    /\ [](\A w \in Workers : pc[w] = "l78" => dreturned = 0)
    /\ [](dreturned >= 1 => \A t \in Range(deqLog) : Completed(t))
    /\ [][\A w \in Workers : pc[w] = "l78" =>
            \/ pc'[w] = "l78" /\ cur'[w] = cur[w]
            \/ pc'[w] = "l65" /\ ran'[cur[w]] = ran[cur[w]] + 1
            \/ pc'[w] = "dead" /\ cur'[w] = cur[w]]_vars

\* the first dispose has just set the stop flag, still holding the lock it
\* took at line 113, while a worker is executing the tuple it popped earlier
InFlightCompletedWitness ==
    /\ dcalls = 1
    /\ stop_flag
    /\ \E c \in Clients : cpc[c] = "l115" /\ lock = c
    /\ \E w \in Workers : pc[w] = "l78" /\ cur[w] # NoTask

\* C23 (as claimed): no dequeue failure. A worker at the removal step of its
\* second locked section (line 73) always finds a tuple in the queue, so the
\* else: continue branch is never taken.
NoDequeueFailure ==
    \A w \in Workers : pc[w] = "l73" => tasks_queue # <<>>

\* C23 (amended): a worker leaves its first locked section for the second one
\* only having seen a non-empty queue, but the lock is free in between. On a
\* pool of one worker the removal step always finds a tuple; on a pool of two
\* or more it can find the queue empty, after another worker popped in
\* between, and it then takes the else: continue branch, which releases the
\* lock and returns the worker to line 65 with the queue, the stop flag and
\* the executions as they were.
DequeueMissHarmless ==
    /\ [](\A w \in Workers :
            (pc[w] = "l73" /\ tasks_queue = <<>>) => (thread_num >= 2 /\ deqLog # <<>>))
    /\ [][\A w \in Workers :
            (pc[w] = "l69" /\ pc'[w] = "l72") => tasks_queue # <<>>]_vars
    /\ [][\A w \in Workers :
            (pc[w] = "l73" /\ tasks_queue = <<>> /\ pc'[w] # "l73") =>
                /\ pc'[w] = "l65"
                /\ lock' = Free
                /\ UNCHANGED <<tasks_queue, stop_flag, cur, deqLog, ran>>]_vars

\* a worker holds the lock at line 73 and the queue is empty: the other
\* worker popped the only tuple and is executing it
DequeueMissWitness ==
    \E w, v \in Workers :
        /\ w # v
        /\ pc[w] = "l73"
        /\ lock = w
        /\ tasks_queue = <<>>
        /\ pc[v] = "l78"

\* C24 (as claimed): progress without dispose. On a pool of at least one
\* worker, with fair scheduling and task bodies that end, every appended tuple
\* is eventually popped and its body run to its end, unless dispose is called;
\* a worker blocks in condition.wait only having seen an empty queue with the
\* stop flag unset, and leaves the wait only released by the notify of an
\* enqueue or the notify_all of a dispose.
ProgressWithoutDispose ==
    /\ \A t \in 1..MaxTasks :
        (thread_num >= 1 /\ t \in Range(enqLog)) ~> (Completed(t) \/ dcalls > 0)
    /\ [][\A w \in Workers :
            (pc[w] # "wait" /\ pc'[w] = "wait") => (tasks_queue = <<>> /\ ~stop_flag)]_vars
    /\ [][\A w \in Workers :
            (pc[w] = "wait" /\ pc'[w] # "wait") =>
                (pc'[w] = "woken" /\ \E c \in Clients : cpc[c] \in {"l97", "l115"})]_vars

\* a step of some thread inside the pool's code, or the end of a task body
SomeThreadCanRun ==
    \/ \E w \in Workers : ENABLED WorkerStep(w)
    \/ \E w \in Workers : ENABLED TaskEnds(w)
    \/ \E c \in Clients : ENABLED ClientStep(c)

\* C25 (as claimed): no lost wake-up. In every state with a live worker and a
\* non-empty queue some live worker is not blocked un-notified in
\* condition.wait; in every state with the stop flag set no live worker is
\* blocked un-notified; and with a live worker and a tuple queued some thread
\* can take a step.
NoLostWakeup ==
    /\ (Alive # {} /\ tasks_queue # <<>>) => \E w \in Alive : pc[w] # "wait"
    /\ stop_flag => \A w \in Alive : pc[w] # "wait"
    /\ (Alive # {} /\ tasks_queue # <<>>) => SomeThreadCanRun

\* a client holds the lock between its write of line 96 or 114 and the notify
\* of the next line
NotifyPending == \E c \in Clients : cpc[c] \in {"l97", "l115"} /\ lock = c

\* C25 (amended): the same in every state but those in which a client, still
\* holding the lock, has appended (line 96) or set the flag (line 114) and has
\* not yet notified (lines 97, 115): there every live worker may be blocked
\* un-notified, the client's next step releases one of them (notify) or all
\* of them (notify_all), and no worker can run before it.
NoLostWakeupOutsideNotify ==
    /\ [](~NotifyPending =>
            /\ (Alive # {} /\ tasks_queue # <<>>) => \E w \in Alive : pc[w] # "wait"
            /\ stop_flag => \A w \in Alive : pc[w] # "wait")
    /\ []((Alive # {} /\ tasks_queue # <<>>) => SomeThreadCanRun)
    /\ [][\A c \in Clients :
            (cpc[c] = "l97" /\ cpc'[c] # "l97" /\ Waiters # {}) =>
                \E w \in Waiters : pc'[w] = "woken"]_vars
    /\ [][\A c \in Clients :
            (cpc[c] = "l115" /\ cpc'[c] # "l115") =>
                \A w \in Waiters : pc'[w] = "woken"]_vars

\* an enqueue has appended and not yet notified while every worker of the
\* pool is blocked in condition.wait
NoLostWakeupWitness ==
    /\ thread_num >= 2
    /\ tasks_queue # <<>>
    /\ \E c \in Clients : cpc[c] = "l97"
    /\ \A i \in 1..thread_num : pc[i] = "wait"

\* the lifecycle state of the pool: RUNNING until line 114 sets the stop flag,
\* STOPPING while a worker is still alive, STOPPED once none is
Phase ==
    IF ~stop_flag THEN "RUNNING"
    ELSE IF Alive # {} THEN "STOPPING"
    ELSE "STOPPED"

PhaseRank == CASE Phase = "RUNNING" -> 0 [] Phase = "STOPPING" -> 1 [] Phase = "STOPPED" -> 2

\* C26: the lifecycle is one-way. No step takes the pool back from STOPPING or
\* STOPPED to an earlier state, and it passes from RUNNING straight to STOPPED
\* only when no worker is alive as the flag is set; a worker that has
\* terminated never takes a step again; and once every worker has ended
\* nothing is popped and no task body is started or completed.
LifecycleOneWay ==
    /\ [][PhaseRank' >= PhaseRank]_vars
    /\ [][(Phase = "RUNNING" /\ Phase' = "STOPPED") => Alive = {}]_vars
    /\ [][\A w \in Workers : Terminated(w) => (pc'[w] = pc[w] /\ cur'[w] = cur[w])]_vars
    /\ [][(Constructed /\ Alive = {}) =>
            /\ deqLog' = deqLog
            /\ ran' = ran
            /\ pc' = pc
            /\ IsPrefix(tasks_queue, tasks_queue')]_vars

\* a pool of two workers is STOPPED after both left their loop, a tuple has
\* been run, and a tuple appended since sits in the queue
LifecycleOneWayWitness ==
    /\ thread_num >= 2
    /\ Phase = "STOPPED"
    /\ \A i \in 1..thread_num : pc[i] = "done"
    /\ ran[1] = 1
    /\ tasks_queue = <<2>>
    /\ \A c \in Clients : cpc[c] = "idle"

\* a tuple was appended whose body has not ended
Pending == \E t \in Range(enqLog) : ~Completed(t)

\* the body run by worker w raises in this step
Raises(w) == pc[w] = "l78" /\ pc'[w] = "dead"

\* C27: task failure is isolated to one worker. When a task body raises, the
\* worker that was executing it ends and never runs again; it holds no lock
\* at that moment; the step changes neither the queue, nor the stop flag, nor
\* the lock, nor any other worker; and with fair scheduling and bodies that
\* end, every appended tuple is still popped and completed unless no worker
\* is left alive.
FailureIsolated ==
    /\ [][\A w \in Workers : Raises(w) =>
            /\ lock # w
            /\ UNCHANGED <<tasks_queue, stop_flag, lock, threads, cur>>
            /\ \A v \in Workers \ {w} : pc'[v] = pc[v]]_vars
    /\ [][\A w \in Workers : pc[w] = "dead" => pc'[w] = "dead"]_vars
    /\ Pending ~> (~Pending \/ Alive = {})

\* one worker was killed by the first tuple; the other has since popped and
\* completed the second and is at work on a third or waiting for it
FailureIsolatedWitness ==
    \E w, v \in Workers :
        /\ pc[w] = "dead"
        /\ cur[w] = 1
        /\ v \in Alive
        /\ ran[2] = 1
        /\ deqLog = <<1, 2>>

NotifiedBefore(c) == dreturned >= 1 \/ \E d \in Clients \ {c} : cpc[d] = "l117"

\* C29: dispose is idempotent. A dispose call, first or second, sequential or
\* concurrent, returns only when every worker has ended; a second call finds
\* the stop flag set and leaves it set, wakes nobody, and none of its steps
\* changes the queue, the worker list or any worker; so after any number of
\* returned calls the flag is set and every worker has ended, as after one.
DisposeIdempotent ==
    /\ [][dreturned' > dreturned => (Constructed /\ Alive = {})]_vars
    /\ [](dreturned >= 1 => (stop_flag /\ Alive = {}))
    /\ [][\A c \in Clients :
            (cpc[c] = "l114" /\ cpc'[c] = "l115" /\ stop_flag) =>
                (stop_flag' /\ UNCHANGED <<tasks_queue, threads, pc, cur>>)]_vars
    /\ [][\A c \in Clients :
            (cpc[c] = "l115" /\ cpc'[c] = "l117" /\ NotifiedBefore(c)) =>
                UNCHANGED <<stop_flag, tasks_queue, threads, pc, cur>>]_vars
    /\ [][\A c \in Clients :
            (cpc[c] = "l117" /\ <<cpc[c], cjoin[c]>> # <<cpc'[c], cjoin'[c]>>) =>
                UNCHANGED <<stop_flag, tasks_queue, threads, pc, cur>>]_vars

\* a second dispose call has set the flag again and is about to notify, while
\* the first is still joining a worker that executes a tuple
DisposeIdempotentWitness ==
    /\ thread_num >= 2
    /\ dcalls = 2
    /\ dreturned = 0
    /\ \E c, d \in Clients : cpc[c] = "l117" /\ cpc[d] = "l115"
    /\ \E w \in Workers : pc[w] = "l78"

\* C30: enqueue after shutdown is accepted silently. An enqueue call appends
\* its tuple whatever the stop flag is; once a dispose call has returned
\* nothing is popped or run any more and the queue only grows, so a tuple
\* appended from then on stays queued forever; and a tuple appended while
\* dispose drains is run only if a worker that has not yet left its loop pops
\* it: every popped tuple is popped by a live worker at line 74, only popped
\* tuples are run, and what is queued when the last worker ends stays queued.
LateEnqueueAccepted ==
    /\ [][\A c \in Clients :
            (cpc[c] = "l96" /\ cpc'[c] # "l96") =>
                (cpc'[c] = "l97" /\ tasks_queue' = Append(tasks_queue, ctask[c]))]_vars
    /\ [][dreturned >= 1 =>
            /\ deqLog' = deqLog
            /\ ran' = ran
            /\ pc' = pc
            /\ IsPrefix(tasks_queue, tasks_queue')]_vars
    /\ [][deqLog' # deqLog =>
            \E w \in Alive : pc[w] = "l73" /\ pc'[w] = "l78"
                             /\ cur'[w] = Head(tasks_queue)]_vars
    /\ [](\A t \in 1..MaxTasks : Completed(t) => t \in Range(deqLog))
    /\ []((Constructed /\ Alive = {}) => tasks_queue = SubSeq(enqLog, Len(deqLog) + 1, Len(enqLog)))

\* the only dispose call has returned on a pool whose workers left their loop
\* without having run anything, and the tuple of an enqueue call that has
\* returned too is in the queue
LateEnqueueAcceptedWitness ==
    /\ thread_num >= 1
    /\ dcalls = 1
    /\ dreturned = 1
    /\ \A i \in 1..thread_num : pc[i] = "done"
    /\ deqLog = <<>>
    /\ tasks_queue = <<1>>
    /\ \A c \in Clients : cpc[c] = "idle"

\* ---- C31
\* the steps a client takes inside enqueue (lines 80-97)
EnqueueStep(c) == InEnqueue(c) /\ cpc'[c] # cpc[c]

\* C31: frame of enqueue.  Every step of an enqueue call leaves the stop flag,
\* thread_num and the list of worker threads as they are, moves no worker
\* except that line 97 may wake one waiter, and leaves the tuple a worker holds
\* alone.  The step at line 96 makes the queue the old queue with the call's
\* tuple added as its last element; the other steps of the call (entering,
\* taking the lock, notifying) leave the queue as it is.  A call appends once:
\* the tuples appended so far are pairwise distinct and are exactly those of
\* the calls that are past line 96.
EnqueueFrame ==
    /\ [][\A c \in Clients :
            (EnqueueStep(c) \/ (cpc[c] = "idle" /\ cpc'[c] = "l95")) =>
                /\ stop_flag' = stop_flag
                /\ thread_num' = thread_num
                /\ threads' = threads
                /\ cur' = cur
                /\ deqLog' = deqLog
                /\ ran' = ran
                /\ \A w \in Workers :
                     pc'[w] # pc[w] => (cpc[c] = "l97" /\ pc[w] = "wait" /\ pc'[w] = "woken")
                /\ IF cpc[c] = "l96"
                   THEN /\ tasks_queue' = Append(tasks_queue, ctask[c])
                        /\ Len(tasks_queue') = Len(tasks_queue) + 1
                        /\ SubSeq(tasks_queue', 1, Len(tasks_queue)) = tasks_queue
                   ELSE tasks_queue' = tasks_queue]_vars
    /\ [](Distinct(enqLog))
    /\ [](Len(enqLog) = calls - Cardinality({c \in Clients : cpc[c] \in {"l95", "l96"}}))

\* a second call has appended behind a tuple that is still queued, and returned
EnqueueFrameWitness ==
    /\ tasks_queue = <<1, 2>>
    /\ \A c \in Clients : cpc[c] = "idle"
    /\ ~stop_flag

\* ---- C32
\* the pairs of an OrderedDict stored under keys other than key, in order
Others(c, key) == SelectSeq(c, LAMBDA e : e[1] # key)

\* a step in which an invocation returns and wrapper reaches lines 62-65
StoreStep == Len(stack') < Len(stack)

\* C32: with max_size = n > 0 the cache never holds more than n pairs, and a
\* key is stored at most once.  When the store that ends a miss finds n pairs,
\* exactly one stored key is evicted and it is the key inserted earliest; the
\* pairs that stay keep their order and a new key goes last.  With fewer than
\* n pairs nothing is evicted.  A wrapper call (a hit in particular) leaves
\* the stored pairs and their order as they are: eviction is first in, first
\* out, not least recently used.
CacheBoundFifo ==
    /\ [](max_size > 0 => Len(cached) <= max_size)
    /\ [](Cardinality(Keys(cached)) = Len(cached))
    /\ [][callLog' # callLog => cached' = cached]_vars
    /\ [][(StoreStep /\ max_size > 0) =>
            LET key == stack[Len(stack)].key IN
            IF Len(cached) = max_size
            THEN /\ Keys(cached') = (Keys(cached) \ {cached[1][1]}) \cup {key}
                 /\ Others(cached', key) = Others(Tail(cached), key)
                 /\ key \notin Keys(Tail(cached)) => cached'[Len(cached')][1] = key
            ELSE /\ Keys(cached') = Keys(cached) \cup {key}
                 /\ Others(cached', key) = Others(cached, key)
                 /\ key \notin Keys(cached) => cached'[Len(cached')][1] = key]_vars

\* max_size = 2: two keys were stored, the first was then hit, and a third key
\* has evicted the first all the same
CacheBoundFifoWitness ==
    /\ max_size = 2
    /\ stack = <<>>
    /\ Len(callLog) = 4
    /\ callLog[3] = callLog[1]
    /\ misses = 3
    /\ Len(cached) = 2
    /\ cached[1][1] = callLog[2]
    /\ cached[2][1] = callLog[4]
    /\ callLog[1] \notin Keys(cached)

\* ---- C33
\* C33: game length.  While play() runs, the round being played is never
\* beyond MAX_ROUND: round_count <= MAX_ROUND in every round play() starts,
\* whatever play_round and modify_game_rule calls came before play().
GameLength == (InPlay /\ gpc # "idle") => round_count <= rules.MAX_ROUND

\* ---- C34
\* player i holds a two-card 21 and the dealer does not
PlayerBlackjack(i) ==
    /\ Len(players[i].hand) = 2
    /\ players[i].score = 21
    /\ ~(Len(dealer.hand) = 2 /\ dealer.score = 21)

\* C34: settle_bets pays a player who holds a two-card 21, while the dealer
\* holds no two-card 21, int(bet * BLACKJACK_PAYOUT), whatever the dealer's
\* score is, a dealer's score above 21 included.
BlackjackPayout ==
    [][SettleStep =>
        \A i \in 1..Len(players) :
            PlayerBlackjack(i) =>
                ChipsChange(i) =
                    (BetOf(bets, players[i].name) * rules.BLACKJACK_PAYOUT[1])
                        \div rules.BLACKJACK_PAYOUT[2]]_vars

\* ---- C35
\* the Hi-Lo total of the first n cards of the deck
RECURSIVE HiLoSum(_, _)
HiLoSum(cards, n) ==
    IF n <= 0 THEN 0
    ELSE (IF n <= Len(cards) THEN HiLo(cards[n]) ELSE 0) + HiLoSum(cards, n - 1)

\* the Hi-Lo total of the cards revealed since the last shuffle, in a game
\* played through play and play_round, where the dealer's turn reveals the
\* hidden card of every deal: the cards dealt, less the card still hidden
RevealedTotal ==
    HiLoSum(deck_cards, deck_count)
        - (IF dealer.hide_card = NoCard THEN 0 ELSE HiLo(dealer.hide_card))

\* C35: whenever no call has raised and counting_players lists only bots with
\* a CountingStrategy, at least one, the count the counting bots decide on
\* equals the Hi-Lo total of the cards revealed since the last shuffle: every
\* revealed card has changed it by its Hi-Lo value exactly once, however many
\* counting bots are seated, and a shuffle has set it to 0.
CountIsHiLo ==
    (gerr = "none" /\ counting_players # <<>> /\ ~StaleRoster) =>
        strategy_count = RevealedTotal

\* the same with one counting bot listed
CountIsHiLoSingle ==
    (gerr = "none" /\ Len(counting_players) = 1 /\ ~StaleRoster) =>
        strategy_count = RevealedTotal

\* ---- C36
\* the positions of the seated bots whose strategy is a CountingStrategy now
CountingBots == {i \in 1..Len(players) : players[i].strategy = "counting"}

\* C36: counting_players lists exactly the seated bots whose current strategy
\* is a CountingStrategy, each once, after any add_player and
\* change_bot_strategy calls, and no call ends with the AttributeError of an
\* update_count on another strategy.
CountingRoster ==
    /\ Range(counting_players) = CountingBots
    /\ Len(counting_players) = Cardinality(CountingBots)
    /\ gerr # "AttributeError"

\* ---- C37
\* C37: the deck never runs out.  Deck.get_card is never called with
\* deck.count already at the number of cards: deck.count never passes the end
\* of the deck and no call ends with IndexError, for 1 to MAX_PLAYERS bots
\* with the built-in strategies.
DeckSuffices ==
    /\ deck_count <= Len(deck_cards)
    /\ gerr # "IndexError"

\* ---- C38
\* the keys of the nodes of a tree
RECURSIVE NodeKeys(_)
NodeKeys(node) ==
    IF node = NoNode THEN {}
    ELSE NodeKeys(node.left) \cup {node.key} \cup NodeKeys(node.right)

\* C38: split(node, key) returns two subtrees that partition the nodes of the
\* tree it was given, every key of the first strictly less than key and every
\* key of the second greater than or equal to key, also for a key that is in
\* the tree.
SplitPartition ==
    tlast.op = "split" =>
        /\ NodeKeys(tsplit.left) \cup NodeKeys(tsplit.right) = NodeKeys(tsplit.node)
        /\ NodeKeys(tsplit.left) \cap NodeKeys(tsplit.right) = {}
        /\ \A kk \in NodeKeys(tsplit.left) : kk < tsplit.key
        /\ \A kk \in NodeKeys(tsplit.right) : kk >= tsplit.key

\* ---- C39
\* no child in the tree has a higher priority than its parent
RECURSIVE HeapOrdered(_)
HeapOrdered(node) ==
    \/ node = NoNode
    \/ /\ node.left # NoNode => node.left.priority <= node.priority
       /\ node.right # NoNode => node.right.priority <= node.priority
       /\ HeapOrdered(node.left)
       /\ HeapOrdered(node.right)

\* a list of keys in strictly ascending order
Ascending(s) == \A i \in 1..(Len(s) - 1) : s[i] < s[i + 1]

\* the treap holds the items of the dict d, and finds each by its key
SameMapping(node, d) ==
    /\ NodeKeys(node) = DOMAIN d
    /\ Len(InorderIter(node)) = Cardinality(DOMAIN d)
    /\ \A key \in DOMAIN d :
        /\ GetNode(node, key) # NoNode
        /\ GetNode(node, key).value = d[key]
    /\ \A key \in TreapKeys \ DOMAIN d : GetNode(node, key) = NoNode

\* C39: after any sequence of __setitem__ and __delitem__ the keys come out
\* of the in-order iteration in strictly ascending order (a search tree, each
\* key once), no child has a higher priority than its parent, and the treap
\* maps the same keys to the same values as a dict given the same operations,
\* with KeyError exactly for the __delitem__ of a key that is not stored.
\* Setting a stored key replaces its value and leaves the keys, the
\* priorities and the shape of the tree as they are.
TreapInvariants ==
    /\ [](Ascending(InorderIter(troot)))
    /\ [](HeapOrdered(troot))
    /\ [](SameMapping(troot, tref))
    /\ [](terr = "KeyError" <=> (tlast.op = "__delitem__" /\ ~tlast.stored))
    /\ [][(tlast'.op = "__setitem__" /\ tlast'.key \in DOMAIN tref) =>
            /\ InorderIter(troot') = InorderIter(troot)
            /\ troot' = WithValue(troot, tlast'.key, tref'[tlast'.key])]_vars

\* three keys are stored, the root has a child of its own priority, and the
\* latest call set a new value for a stored key
TreapInvariantsWitness ==
    /\ tlast.op = "__setitem__"
    /\ tlast.stored
    /\ Len(InorderIter(troot)) = 3
    /\ tref[tlast.key] = "b"
    /\ \E key \in DOMAIN tref : tref[key] = "a"
    /\ troot.left # NoNode
    /\ troot.left.priority = troot.priority

====
